---- MODULE Spec2Model ----
(***************************************************************************)
(* Model of the knowledge-base server's Graph Store                        *)
(* (src/src/manager/KnowledgeGraphManager.ts): a JSONL file that every     *)
(* operation loads in full, changes in memory and rewrites in full.        *)
(***************************************************************************)
EXTENDS Naturals, Integers, Sequences, FiniteSets, TLC

\* ------------------------------------------------------------------------
\* Bounds of the model
\* ------------------------------------------------------------------------
\* longest input list of a call (entities, relations, names, contents)
MaxBatch == 2
\* most entity lines / relation lines a call may leave in storage
MaxStored == 2
\* most observations a call may leave in storage, all entities together
MaxObservations == 2

\* ------------------------------------------------------------------------
\* Input alphabets
\* ------------------------------------------------------------------------
Names == {"A", "B"}
EntityTypes == {"person", "company"}
Contents == {"x", "y"}
RelationTypes == {"knows", "likes"}

RECURSIVE SeqsUpTo(_, _)
SeqsUpTo(S, n) ==
  IF n = 0 THEN {<<>>}
  ELSE LET shorter == SeqsUpTo(S, n - 1)
       IN shorter \cup {Append(s, x) : s \in {t \in shorter : Len(t) = n - 1}, x \in S}

ContentLists == SeqsUpTo(Contents, MaxBatch)
NameLists == SeqsUpTo(Names, MaxBatch)
\* names asked of openNodes: the entity names and the name no entity has
OpenLists == SeqsUpTo(Names \cup {"C"}, MaxBatch)

\* Entity, Relation, ObservationInput, ObservationDeletion as the callers pass them.
\* Entities are created with observations over "x" only, and "B" is always a
\* company. "C" is a name that only relations mention: no entity is called "C".
Entity == {e \in [name : Names, entityType : EntityTypes,
                  observations : SeqsUpTo({"x"}, MaxBatch)] :
             e.name = "B" => e.entityType = "company"}
Relation == [from : {"A"}, to : {"B"}, relationType : RelationTypes]
              \cup {[from |-> "B", to |-> "C", relationType |-> "knows"]}
ObservationInput == [entityName : Names, contents : ContentLists \ {<<>>}]
ObservationDeletion == [entityName : Names,
                        observations : {<<"x">>, <<"y">>, <<"x", "y">>}]

EntityLists == SeqsUpTo(Entity, MaxBatch)
RelationLists == SeqsUpTo(Relation, MaxBatch)
ObservationInputLists == SeqsUpTo(ObservationInput, MaxBatch)
ObservationDeletionLists == SeqsUpTo(ObservationDeletion, MaxBatch)

\* ------------------------------------------------------------------------
\* State
\* ------------------------------------------------------------------------
VARIABLES
  file,      \* the storage file: [exists, lines]
  last,      \* the call a single caller has just awaited, with what it started from
  inflight,  \* per concurrent caller: the call it is in, between its load and its save
  saved,     \* the concurrent callers in the order their saves reached the file
  client,    \* the page of the visualization open in a browser: its script's variables
  polls,     \* the page's requests to /api/graph that have not been handled yet
  servers,   \* the http servers startVisualizationServer has created
  currentServer  \* the module variable of that name: a server, or null

vars == <<file, last, inflight, saved, client, polls, servers, currentServer>>

hostVars == <<servers, currentServer>>

viewerVars == <<client, polls, hostVars>>

\* the value of currentServer when it refers to no server
null == 0

\* no page is open
NoViewer == [page |-> "closed"]

\* callers that do not await each other
Callers == {"c1", "c2"}

\* ------------------------------------------------------------------------
\* Record codec: one line of the file per JSON object
\* ------------------------------------------------------------------------
JSON_stringify(item) == [kind |-> "object", item |-> item]

BlankLine == [kind |-> "blank"]

EmptyGraph == [entities |-> <<>>, relations |-> <<>>]

\* Faulty variant: a line of an unknown type is an error
RECURSIVE ReduceLines_rejectsUnknownType(_, _)
ReduceLines_rejectsUnknownType(graph, lines) ==
  IF lines = <<>> THEN [ok |-> TRUE, graph |-> graph]
  ELSE LET line == Head(lines)
       IN IF line.kind # "object" \/ line.item.type \notin {"entity", "relation"}
          THEN [ok |-> FALSE, graph |-> EmptyGraph]
          ELSE LET item == line.item
                   g1 == IF item.type = "entity"
                         THEN [graph EXCEPT !.entities = Append(@, item)]
                         ELSE graph
                   g2 == IF item.type = "relation"
                         THEN [g1 EXCEPT !.relations = Append(@, item)]
                         ELSE g1
               IN ReduceLines_rejectsUnknownType(g2, Tail(lines))

\* Faulty variant: a line that does not parse is skipped
RECURSIVE ReduceLines_skipsUnparsable(_, _)
ReduceLines_skipsUnparsable(graph, lines) ==
  IF lines = <<>> THEN [ok |-> TRUE, graph |-> graph]
  ELSE LET line == Head(lines)
       IN IF line.kind # "object"
          THEN ReduceLines_skipsUnparsable(graph, Tail(lines))
          ELSE LET item == line.item
                   g1 == IF item.type = "entity"
                         THEN [graph EXCEPT !.entities = Append(@, item)]
                         ELSE graph
                   g2 == IF item.type = "relation"
                         THEN [g1 EXCEPT !.relations = Append(@, item)]
                         ELSE g1
               IN ReduceLines_skipsUnparsable(g2, Tail(lines))

\* lines.reduce(...) of loadGraph: parse each line, keep entities and relations
RECURSIVE ReduceLines(_, _)
ReduceLines(graph, lines) ==
  IF lines = <<>> THEN [ok |-> TRUE, graph |-> graph]
  ELSE LET line == Head(lines)
       IN IF line.kind # "object"
          THEN [ok |-> FALSE, graph |-> EmptyGraph]   \* JSON.parse throws
          ELSE LET item == line.item
                   g1 == IF item.type = "entity"
                         THEN [graph EXCEPT !.entities = Append(@, item)]
                         ELSE graph
                   g2 == IF item.type = "relation"
                         THEN [g1 EXCEPT !.relations = Append(@, item)]
                         ELSE g1
               IN ReduceLines(g2, Tail(lines))

\* Faulty variant: a missing file is an error like any other
loadGraph_rethrowsENOENT(f) ==
  IF ~f.exists
  THEN [ok |-> FALSE, graph |-> EmptyGraph]
  ELSE ReduceLines(EmptyGraph, SelectSeq(f.lines, LAMBDA line : line.kind # "blank"))

loadGraph(f) ==
  IF ~f.exists
  THEN [ok |-> TRUE, graph |-> EmptyGraph]            \* ENOENT
  ELSE ReduceLines(EmptyGraph, SelectSeq(f.lines, LAMBDA line : line.kind # "blank"))

\* Faulty variant: the observations of an entity are not written
EntityLine_withoutObservations(e) ==
  JSON_stringify([type |-> "entity", name |-> e.name, entityType |-> e.entityType,
                  observations |-> <<>>])

EntityLine(e) ==
  JSON_stringify([type |-> "entity", name |-> e.name, entityType |-> e.entityType,
                  observations |-> e.observations])

RelationLine(r) ==
  JSON_stringify([type |-> "relation", from |-> r.from, to |-> r.to,
                  relationType |-> r.relationType])

MapSeq(s, Op(_)) == [i \in 1..Len(s) |-> Op(s[i])]

\* Faulty variant: the relations are written before the entities
saveGraph_relationsFirst(graph) ==
  [exists |-> TRUE,
   lines |-> MapSeq(graph.relations, RelationLine) \o MapSeq(graph.entities, EntityLine)]

saveGraph(graph) ==
  [exists |-> TRUE,
   lines |-> MapSeq(graph.entities, EntityLine) \o MapSeq(graph.relations, RelationLine)]

\* ------------------------------------------------------------------------
\* Array helpers used by the handlers
\* ------------------------------------------------------------------------
includes(s, x) == \E i \in 1..Len(s) : s[i] = x

\* index of the first entity called name, 0 when there is none (Array.find)
find(entities, name) ==
  IF \E i \in 1..Len(entities) : entities[i].name = name
  THEN CHOOSE i \in 1..Len(entities) :
         /\ entities[i].name = name
         /\ \A j \in 1..(i - 1) : entities[j].name # name
  ELSE 0

\* Faulty variant: relations compared by their endpoints only
sameRelation_endpointsOnly(r, q) ==
  /\ r.from = q.from
  /\ r.to = q.to

sameRelation(r, q) ==
  /\ r.from = q.from
  /\ r.to = q.to
  /\ r.relationType = q.relationType

\* ------------------------------------------------------------------------
\* The handlers' work on the loaded graph, between loadGraph and saveGraph
\* ------------------------------------------------------------------------
\* Faulty variant: no filtering: every input counts as new
newEntities_unfiltered(graph, entities) == entities

newEntities(graph, entities) ==
  SelectSeq(entities, LAMBDA e :
    ~\E i \in 1..Len(graph.entities) : graph.entities[i].name = e.name)

\* Faulty variant: upsert: an input whose name exists replaces the stored entity
createEntitiesOn_upsert(graph, entities) ==
  [threw |-> FALSE,
   graph |-> [graph EXCEPT !.entities =
                [i \in 1..Len(@) |->
                   IF \E k \in 1..Len(entities) : entities[k].name = @[i].name
                   THEN entities[CHOOSE k \in 1..Len(entities) :
                                   entities[k].name = @[i].name]
                   ELSE @[i]] \o newEntities(graph, entities)],
   ret |-> newEntities(graph, entities)]

createEntitiesOn(graph, entities) ==
  [threw |-> FALSE,
   graph |-> [graph EXCEPT !.entities = @ \o newEntities(graph, entities)],
   ret |-> newEntities(graph, entities)]

newRelations(graph, relations) ==
  SelectSeq(relations, LAMBDA r :
    ~\E i \in 1..Len(graph.relations) : sameRelation(graph.relations[i], r))

\* Faulty variant: a relation whose endpoint is no stored entity is refused
createRelationsOn_checksEndpoints(graph, relations) ==
  [threw |-> \E k \in 1..Len(relations) :
               \/ find(graph.entities, relations[k].from) = 0
               \/ find(graph.entities, relations[k].to) = 0,
   graph |-> [graph EXCEPT !.relations = @ \o newRelations(graph, relations)],
   ret |-> newRelations(graph, relations)]

createRelationsOn(graph, relations) ==
  [threw |-> FALSE,
   graph |-> [graph EXCEPT !.relations = @ \o newRelations(graph, relations)],
   ret |-> newRelations(graph, relations)]

newObservations(entity, contents) ==
  SelectSeq(contents, LAMBDA content : ~includes(entity.observations, content))

\* Faulty variant: an entry naming a missing entity is skipped, as deleteObservations does
RECURSIVE mapObservations_skipsMissing(_, _, _)
mapObservations_skipsMissing(graph, observations, results) ==
  IF observations = <<>>
  THEN [threw |-> FALSE, graph |-> graph, ret |-> results]
  ELSE LET o == Head(observations)
           idx == find(graph.entities, o.entityName)
       IN IF idx = 0
          THEN mapObservations_skipsMissing(graph, Tail(observations), results)
          ELSE LET added == SelectSeq(o.contents, LAMBDA content :
                              ~includes(graph.entities[idx].observations, content))
               IN mapObservations_skipsMissing(
                    [graph EXCEPT !.entities[idx].observations = @ \o added],
                    Tail(observations),
                    Append(results, [entityName |-> o.entityName,
                                     addedObservations |-> added]))

\* observations.map(...): entry by entry on the shared graph, stopping at the throw
RECURSIVE mapObservations(_, _, _)
mapObservations(graph, observations, results) ==
  IF observations = <<>>
  THEN [threw |-> FALSE, graph |-> graph, ret |-> results]
  ELSE LET o == Head(observations)
           idx == find(graph.entities, o.entityName)
       IN IF idx = 0
          THEN [threw |-> TRUE, graph |-> graph, ret |-> results]
          ELSE LET added == newObservations(graph.entities[idx], o.contents)
               IN mapObservations(
                    [graph EXCEPT !.entities[idx].observations = @ \o added],
                    Tail(observations),
                    Append(results, [entityName |-> o.entityName,
                                     addedObservations |-> added]))

addObservationsOn(graph, observations) == mapObservations(graph, observations, <<>>)

\* Faulty variant: the cascade looks at the source of a relation only
deleteEntitiesOn_fromOnly(graph, entityNames) ==
  [threw |-> FALSE,
   graph |-> [entities |-> SelectSeq(graph.entities,
                             LAMBDA e : ~includes(entityNames, e.name)),
              relations |-> SelectSeq(graph.relations,
                             LAMBDA r : ~includes(entityNames, r.from))],
   ret |-> <<>>]

\* Faulty variant: a name that no stored entity has is an error
deleteEntitiesOn_strict(graph, entityNames) ==
  [threw |-> \E k \in 1..Len(entityNames) : find(graph.entities, entityNames[k]) = 0,
   graph |-> [entities |-> SelectSeq(graph.entities,
                             LAMBDA e : ~includes(entityNames, e.name)),
              relations |-> SelectSeq(graph.relations,
                             LAMBDA r : ~includes(entityNames, r.from)
                                        /\ ~includes(entityNames, r.to))],
   ret |-> <<>>]

deleteEntitiesOn(graph, entityNames) ==
  [threw |-> FALSE,
   graph |-> [entities |-> SelectSeq(graph.entities,
                             LAMBDA e : ~includes(entityNames, e.name)),
              relations |-> SelectSeq(graph.relations,
                             LAMBDA r : ~includes(entityNames, r.from)
                                        /\ ~includes(entityNames, r.to))],
   ret |-> <<>>]

RECURSIVE forEachDeletion(_, _)
forEachDeletion(graph, deletions) ==
  IF deletions = <<>> THEN graph
  ELSE LET d == Head(deletions)
           idx == find(graph.entities, d.entityName)
       IN forEachDeletion(
            IF idx = 0 THEN graph
            ELSE [graph EXCEPT !.entities[idx].observations =
                    SelectSeq(@, LAMBDA o : ~includes(d.observations, o))],
            Tail(deletions))

deleteObservationsOn(graph, deletions) ==
  [threw |-> FALSE, graph |-> forEachDeletion(graph, deletions), ret |-> <<>>]

\* Faulty variant: every relation between the two names of an input is removed
deleteRelationsOn_endpointsOnly(graph, relations) ==
  [threw |-> FALSE,
   graph |-> [graph EXCEPT !.relations = SelectSeq(@, LAMBDA r :
                ~\E i \in 1..Len(relations) : sameRelation_endpointsOnly(r, relations[i]))],
   ret |-> <<>>]

deleteRelationsOn(graph, relations) ==
  [threw |-> FALSE,
   graph |-> [graph EXCEPT !.relations = SelectSeq(@, LAMBDA r :
                ~\E i \in 1..Len(relations) : sameRelation(r, relations[i]))],
   ret |-> <<>>]

\* ------------------------------------------------------------------------
\* Strings as the read operations look at them: code units, lower-cased and
\* searched for a substring
\* ------------------------------------------------------------------------
Queries == {"", "A", "X", "on", "Company", "z"}

Chars(str) ==
  CASE str = "" -> <<>>
    [] str \in {"A", "B", "C", "X", "x", "y", "z"} -> <<str>>
    [] str = "on" -> <<"o", "n">>
    [] str = "person" -> <<"p", "e", "r", "s", "o", "n">>
    [] str = "company" -> <<"c", "o", "m", "p", "a", "n", "y">>
    [] str = "Company" -> <<"C", "o", "m", "p", "a", "n", "y">>
    [] str = "knows" -> <<"k", "n", "o", "w", "s">>
    [] str = "likes" -> <<"l", "i", "k", "e", "s">>
    [] str = "k" -> <<"k">>
    [] str = "A|k" -> <<"A", "|", "k">>
    [] str = "k|k" -> <<"k", "|", "k">>

toLowerCase(chars) ==
  [i \in 1..Len(chars) |->
     CASE chars[i] = "A" -> "a"
       [] chars[i] = "B" -> "b"
       [] chars[i] = "C" -> "c"
       [] chars[i] = "X" -> "x"
       [] OTHER -> chars[i]]

\* String.prototype.includes: part occurs in whole from some position on
includesString(whole, part) ==
  \E start \in 1..(Len(whole) - Len(part) + 1) :
    SubSeq(whole, start, start + Len(part) - 1) = part

\* s.toLowerCase().includes(query.toLowerCase())
matchesQuery(str, query) ==
  includesString(toLowerCase(Chars(str)), toLowerCase(Chars(query)))

\* ------------------------------------------------------------------------
\* The read operations' work on the loaded graph
\* ------------------------------------------------------------------------
\* Faulty variant: a relation is kept when one of its endpoints is in the result
filteredRelations_eitherEndpoint(graph, filteredEntities) ==
  LET filteredEntityNames ==
        {filteredEntities[i].name : i \in 1..Len(filteredEntities)}
  IN SelectSeq(graph.relations, LAMBDA r :
       r.from \in filteredEntityNames \/ r.to \in filteredEntityNames)

\* the relations between the entities of a result
filteredRelations(graph, filteredEntities) ==
  LET filteredEntityNames ==
        {filteredEntities[i].name : i \in 1..Len(filteredEntities)}
  IN SelectSeq(graph.relations, LAMBDA r :
       r.from \in filteredEntityNames /\ r.to \in filteredEntityNames)

readGraphOn(graph) == [threw |-> FALSE, ret |-> <<graph>>]

searchNodesOn(graph, query) ==
  LET filteredEntities ==
        SelectSeq(graph.entities, LAMBDA e :
          \/ matchesQuery(e.name, query)
          \/ matchesQuery(e.entityType, query)
          \/ \E i \in 1..Len(e.observations) : matchesQuery(e.observations[i], query))
  IN [threw |-> FALSE,
      ret |-> <<[entities |-> filteredEntities,
                 relations |-> filteredRelations(graph, filteredEntities)]>>]

\* Faulty variant: relations are chosen by the names asked for, stored or not
openNodesOn_byNamesAsked(graph, names) ==
  [threw |-> FALSE,
   ret |-> <<[entities |-> SelectSeq(graph.entities, LAMBDA e : includes(names, e.name)),
              relations |-> SelectSeq(graph.relations, LAMBDA r :
                              includes(names, r.from) /\ includes(names, r.to))]>>]

openNodesOn(graph, names) ==
  LET filteredEntities == SelectSeq(graph.entities, LAMBDA e : includes(names, e.name))
  IN [threw |-> FALSE,
      ret |-> <<[entities |-> filteredEntities,
                 relations |-> filteredRelations(graph, filteredEntities)]>>]

\* Faulty variant: an entity that is not stored has no observations to search
searchObservationsOn_emptyWhenMissing(graph, entityName, query) ==
  LET idx == find(graph.entities, entityName)
  IN [threw |-> FALSE,
      ret |-> IF idx = 0 THEN <<>>
              ELSE SelectSeq(graph.entities[idx].observations,
                             LAMBDA observation : matchesQuery(observation, query))]

searchObservationsOn(graph, entityName, query) ==
  LET idx == find(graph.entities, entityName)
  IN IF idx = 0
     THEN [threw |-> TRUE, ret |-> <<>>]
     ELSE [threw |-> FALSE,
           ret |-> SelectSeq(graph.entities[idx].observations,
                             LAMBDA observation : matchesQuery(observation, query))]

\* ------------------------------------------------------------------------
\* A whole call: loadGraph, the handler's work, saveGraph unless it threw
\* ------------------------------------------------------------------------
RECURSIVE SumLen(_)
SumLen(entities) ==
  IF entities = <<>> THEN 0
  ELSE Len(Head(entities).observations) + SumLen(Tail(entities))

WithinBounds(graph) ==
  /\ Len(graph.entities) <= MaxStored
  /\ Len(graph.relations) <= MaxStored
  /\ SumLen(graph.entities) <= MaxObservations

NoFile == [exists |-> FALSE, lines |-> <<>>]

NoFirst == [called |-> FALSE, ret |-> <<>>, before |-> NoFile]

NoCall ==
  [op |-> "none", args |-> <<>>, ret |-> <<>>, outcome |-> "ok",
   before |-> NoFile, first |-> NoFirst]

Record(op, args, ret, outcome) ==
  [op |-> op, args |-> args, ret |-> ret, outcome |-> outcome, before |-> file,
   first |-> IF last = NoCall THEN NoFirst
             ELSE [called |-> TRUE, ret |-> last.ret, before |-> last.before]]

Call(op, args, r) ==
  /\ IF r.threw
     THEN /\ file' = file
          /\ last' = Record(op, args, <<>>, "NotFound")
     ELSE /\ WithinBounds(r.graph)
          /\ file' = saveGraph(r.graph)
          /\ last' = Record(op, args, r.ret, "ok")
  /\ UNCHANGED <<inflight, saved>>
  /\ UNCHANGED viewerVars

LoadFailed(op, args) ==
  /\ file' = file
  /\ last' = Record(op, args, <<>>, "MalformedRecord")
  /\ UNCHANGED <<inflight, saved>>
  /\ UNCHANGED viewerVars

createEntities(entities) ==
  LET l == loadGraph(file)
  IN IF ~l.ok THEN LoadFailed("createEntities", entities)
     ELSE Call("createEntities", entities, createEntitiesOn(l.graph, entities))

createRelations(relations) ==
  LET l == loadGraph(file)
  IN IF ~l.ok THEN LoadFailed("createRelations", relations)
     ELSE Call("createRelations", relations, createRelationsOn(l.graph, relations))

addObservations(observations) ==
  LET l == loadGraph(file)
  IN IF ~l.ok THEN LoadFailed("addObservations", observations)
     ELSE Call("addObservations", observations, addObservationsOn(l.graph, observations))

deleteEntities(entityNames) ==
  LET l == loadGraph(file)
  IN IF ~l.ok THEN LoadFailed("deleteEntities", entityNames)
     ELSE Call("deleteEntities", entityNames, deleteEntitiesOn(l.graph, entityNames))

deleteObservations(deletions) ==
  LET l == loadGraph(file)
  IN IF ~l.ok THEN LoadFailed("deleteObservations", deletions)
     ELSE Call("deleteObservations", deletions, deleteObservationsOn(l.graph, deletions))

deleteRelations(relations) ==
  LET l == loadGraph(file)
  IN IF ~l.ok THEN LoadFailed("deleteRelations", relations)
     ELSE Call("deleteRelations", relations, deleteRelationsOn(l.graph, relations))

\* Faulty variant: answering a read writes back what was loaded
Answer_savesWhatItLoaded(op, args, r) ==
  /\ file' = saveGraph(loadGraph(file).graph)
  /\ last' = Record(op, args, r.ret, IF r.threw THEN "NotFound" ELSE "ok")
  /\ UNCHANGED <<inflight, saved>>
  /\ UNCHANGED viewerVars

\* a read operation: loadGraph, the work, and the answer; nothing is saved
Answer(op, args, r) ==
  /\ file' = file
  /\ last' = Record(op, args, r.ret, IF r.threw THEN "NotFound" ELSE "ok")
  /\ UNCHANGED <<inflight, saved>>
  /\ UNCHANGED viewerVars

readGraph ==
  LET l == loadGraph(file)
  IN IF ~l.ok THEN LoadFailed("readGraph", <<>>)
     ELSE Answer("readGraph", <<>>, readGraphOn(l.graph))

searchNodes(query) ==
  LET l == loadGraph(file)
  IN IF ~l.ok THEN LoadFailed("searchNodes", <<query>>)
     ELSE Answer("searchNodes", <<query>>, searchNodesOn(l.graph, query))

openNodes(names) ==
  LET l == loadGraph(file)
  IN IF ~l.ok THEN LoadFailed("openNodes", names)
     ELSE Answer("openNodes", names, openNodesOn(l.graph, names))

searchObservations(entityName, query) ==
  LET l == loadGraph(file)
  IN IF ~l.ok THEN LoadFailed("searchObservations", <<entityName, query>>)
     ELSE Answer("searchObservations", <<entityName, query>>,
                 searchObservationsOn(l.graph, entityName, query))

\* ------------------------------------------------------------------------
\* The /api/graph endpoint of the visualization server
\* ------------------------------------------------------------------------
\* the projection of a graph that the page and the endpoint serialise
nodesOf(graph) ==
  [i \in 1..Len(graph.entities) |->
     [id |-> graph.entities[i].name,
      type |-> graph.entities[i].entityType,
      observations |-> graph.entities[i].observations]]

linksOf(graph) ==
  [i \in 1..Len(graph.relations) |->
     [source |-> graph.relations[i].from,
      target |-> graph.relations[i].to,
      type |-> graph.relations[i].relationType]]

projection(graph) == [nodes |-> nodesOf(graph), links |-> linksOf(graph)]

NoBody == [kind |-> "none"]

\* Faulty variant: a failed reload is answered with 200 and an empty graph
apiGraph_emptyOnFailure(f) ==
  [status |-> 200, body |-> JSON_stringify(projection(loadGraph(f).graph))]

\* the handler of /api/graph: graphLoader is readGraph of the manager
apiGraph(f) ==
  LET currentGraph == readGraphOn(loadGraph(f).graph)
  IN IF loadGraph(f).ok /\ ~currentGraph.threw
     THEN [status |-> 200, body |-> JSON_stringify(projection(currentGraph.ret[1]))]
     ELSE [status |-> 500, body |-> JSON_stringify([error |-> "Failed to load graph"])]

\* a request to /api/graph, from its arrival to the response
graphRequest == Answer("apiGraph", <<>>, [threw |-> FALSE, ret |-> <<apiGraph(file)>>])

\* ------------------------------------------------------------------------
\* Specification: any sequence of calls, one at a time, from empty storage
\* ------------------------------------------------------------------------
\* The caller awaits every call. It then takes the result or the error ...
Return ==
  /\ last # NoCall
  /\ last' = NoCall
  /\ UNCHANGED <<file, inflight, saved>>
  /\ UNCHANGED viewerVars

\* ... or, for the operations documented as ignoring what is already there,
\* submits the same call once more straight away, as the tests do.
Resubmit ==
  /\ ~last.first.called
  /\ \/ last.op = "createEntities" /\ createEntities(last.args)
     \/ last.op = "createRelations" /\ createRelations(last.args)
     \/ last.op = "deleteEntities" /\ deleteEntities(last.args)

Idle == last = NoCall

NotCalled ==
  [pc |-> "idle", op |-> "none", args |-> <<>>, ret |-> <<>>, outcome |-> "ok",
   loaded |-> NoFile, saves |-> FALSE, data |-> <<>>, savesSeen |-> 0,
   writesSeen |-> 0]

Init ==
  /\ file = NoFile
  /\ last = NoCall
  /\ inflight = [c \in Callers |-> NotCalled]
  /\ saved = <<>>
  /\ client = NoViewer
  /\ polls = <<>>
  /\ servers = <<>>
  /\ currentServer = null

Next ==
  \/ Idle /\ \E entities \in EntityLists : createEntities(entities)
  \/ Idle /\ \E relations \in RelationLists : createRelations(relations)
  \/ Idle /\ \E observations \in ObservationInputLists : addObservations(observations)
  \/ Idle /\ \E entityNames \in NameLists : deleteEntities(entityNames)
  \/ Idle /\ \E deletions \in ObservationDeletionLists : deleteObservations(deletions)
  \/ Idle /\ \E relations \in RelationLists : deleteRelations(relations)
  \/ Idle /\ readGraph
  \/ Idle /\ \E query \in Queries : searchNodes(query)
  \/ Idle /\ \E names \in OpenLists : openNodes(names)
  \/ Idle /\ \E entityName \in Names, query \in Queries : searchObservations(entityName, query)
  \/ Idle /\ graphRequest
  \/ Resubmit
  \/ Return

Spec == Init /\ [][Next]_vars

\* ------------------------------------------------------------------------
\* Bytes of the file: what fs.writeFile does to it when calls overlap.
\* fs.promises.writeFile opens the path with flag 'w' (the file is truncated),
\* writes the data from offset 0 of its own descriptor, and closes; the
\* steps of two pending writeFile calls on one path can interleave.
\* ------------------------------------------------------------------------
StrLen(str) ==
  CASE str \in {"A", "B", "C", "x", "y"} -> 1
    [] str \in {"knows", "likes"} -> 5
    [] str = "person" -> 6
    [] str = "company" -> 7

\* ["x","y"] inside the brackets: each string quoted, commas between
RECURSIVE ListBytes(_)
ListBytes(strs) ==
  IF strs = <<>> THEN 0
  ELSE StrLen(Head(strs)) + 2
       + (IF Len(strs) > 1 THEN 1 + ListBytes(Tail(strs)) ELSE 0)

\* {"type":"entity","name":"","entityType":"","observations":[]} is 61 bytes,
\* {"type":"relation","from":"","to":"","relationType":""} is 55
LineBytes(line) ==
  IF line.kind = "blank" THEN 0
  ELSE IF line.kind = "malformed" THEN line.bytes
  ELSE IF line.item.type = "entity"
       THEN 61 + StrLen(line.item.name) + StrLen(line.item.entityType)
               + ListBytes(line.item.observations)
       ELSE 55 + StrLen(line.item.from) + StrLen(line.item.to)
               + StrLen(line.item.relationType)

\* lines.join("\n"): the bytes of the lines and one newline between two lines
RECURSIVE JoinedBytes(_)
JoinedBytes(lines) ==
  IF lines = <<>> THEN 0
  ELSE LineBytes(Head(lines)) + (IF Len(lines) > 1 THEN 1 + JoinedBytes(Tail(lines)) ELSE 0)

\* The lines of a file after `data` was written over its first bytes. What lay
\* beyond the written bytes stays: from a newline on, whole lines; from inside
\* a line on, its remaining bytes glued to the last line written.
RECURSIVE overwrite(_, _, _)
overwrite(data, old, offset) ==
  \* offset: bytes of data still to be laid over the lines of old
  IF old = <<>> THEN data
  ELSE IF offset = LineBytes(Head(old)) /\ Len(old) > 1 THEN data \o Tail(old)
  ELSE IF offset > LineBytes(Head(old))
       THEN overwrite(data, Tail(old), offset - LineBytes(Head(old)) - 1)
  ELSE IF offset = LineBytes(Head(old)) THEN data
  ELSE SubSeq(data, 1, Len(data) - 1)
         \o <<[kind |-> "malformed",
               bytes |-> LineBytes(data[Len(data)]) + LineBytes(Head(old)) - offset]>>
         \o Tail(old)

writeAtStart(data, old) ==
  IF data = <<>> THEN old ELSE overwrite(data, old, JoinedBytes(data))

\* ------------------------------------------------------------------------
\* Specification of concurrent calls: the invocation layer dispatches two
\* calls that do not await each other. A handler runs from the moment its
\* readFile resolves up to its call of writeFile without yielding; the
\* writeFile then opens, writes and resolves, and the call returns.
\* ------------------------------------------------------------------------
\* longest input list of a concurrent call (and none is empty)
MaxRacingBatch == 1

Short(lists) == {l \in lists : Len(l) >= 1 /\ Len(l) <= MaxRacingBatch}

\* storage as earlier calls may have left it
PriorGraph ==
  [entities |-> <<[name |-> "A", entityType |-> "person", observations |-> <<"x">>]>>,
   relations |-> <<[from |-> "A", to |-> "B", relationType |-> "knows"]>>]

PriorFiles == {NoFile, saveGraph(PriorGraph)}

handle(op, graph, args) ==
  CASE op = "createEntities" -> createEntitiesOn(graph, args)
    [] op = "createRelations" -> createRelationsOn(graph, args)
    [] op = "addObservations" -> addObservationsOn(graph, args)
    [] op = "deleteEntities" -> deleteEntitiesOn(graph, args)
    [] op = "deleteObservations" -> deleteObservationsOn(graph, args)
    [] op = "deleteRelations" -> deleteRelationsOn(graph, args)

\* the calls whose writeFile has opened (and truncated) the file
Opened == {c \in Callers : inflight[c].pc \in {"writing", "done"} /\ inflight[c].saves}

\* readFile resolves: the handler parses what the file holds now, does its
\* work on that graph and calls writeFile with the lines, or throws
loaded(c, op, args) ==
  /\ inflight[c].pc = "idle"
  /\ LET l == loadGraph(file)
         r == handle(op, l.graph, args)
         t == [NotCalled EXCEPT !.op = op, !.args = args, !.loaded = file,
                                !.savesSeen = Cardinality(Opened)]
     IN inflight' = [inflight EXCEPT ![c] =
          IF ~l.ok THEN [t EXCEPT !.pc = "done", !.outcome = "MalformedRecord"]
          ELSE IF r.threw THEN [t EXCEPT !.pc = "done", !.outcome = "NotFound"]
          ELSE [t EXCEPT !.pc = "opening", !.saves = TRUE,
                         !.data = saveGraph(r.graph).lines, !.ret = r.ret]]
  /\ UNCHANGED <<file, last, saved>>
  /\ UNCHANGED viewerVars

\* writeFile opens the file for writing: it exists and is empty
opened(c) ==
  /\ inflight[c].pc = "opening"
  /\ file' = [exists |-> TRUE, lines |-> <<>>]
  /\ inflight' = [inflight EXCEPT ![c].pc = "writing", ![c].writesSeen = Len(saved)]
  /\ UNCHANGED <<last, saved>>
  /\ UNCHANGED viewerVars

\* writeFile writes the lines and resolves: the call returns its result
wrote(c) ==
  /\ inflight[c].pc = "writing"
  /\ file' = [exists |-> TRUE, lines |-> writeAtStart(inflight[c].data, file.lines)]
  /\ inflight' = [inflight EXCEPT ![c].pc = "done"]
  /\ saved' = Append(saved, c)
  /\ UNCHANGED last
  /\ UNCHANGED viewerVars

InitRacing ==
  /\ file \in PriorFiles
  /\ last = NoCall
  /\ inflight = [c \in Callers |-> NotCalled]
  /\ saved = <<>>
  /\ client = NoViewer
  /\ polls = <<>>
  /\ servers = <<>>
  /\ currentServer = null

NextRacing ==
  \E c \in Callers :
    \/ \E entities \in Short(EntityLists) : loaded(c, "createEntities", entities)
    \/ \E relations \in Short(RelationLists) : loaded(c, "createRelations", relations)
    \/ \E observations \in Short(ObservationInputLists) :
         loaded(c, "addObservations", observations)
    \/ \E entityNames \in Short(NameLists) : loaded(c, "deleteEntities", entityNames)
    \/ \E deletions \in Short(ObservationDeletionLists) :
         loaded(c, "deleteObservations", deletions)
    \/ \E relations \in Short(RelationLists) : loaded(c, "deleteRelations", relations)
    \/ opened(c)
    \/ wrote(c)

SpecRacing == InitRacing /\ [][NextRacing]_vars

\* ------------------------------------------------------------------------
\* Specification of calls on storage as the store may find it: absent, or
\* holding a line that is not JSON, as overlapping saves leave it (the
\* remains of a longer line behind a shorter one) or as a save cut short
\* leaves it.
\* ------------------------------------------------------------------------
\* 71 bytes: A with observations ["x"] under A with observations [], 68 bytes
Unparsable == [kind |-> "malformed", bytes |-> 71]

\* the lines of PriorGraph with an empty line between them and one at the end
BlankLined ==
  <<saveGraph(PriorGraph).lines[1], BlankLine, saveGraph(PriorGraph).lines[2], BlankLine>>

\* the lines of PriorGraph with the relation written before the entity
Reordered == <<saveGraph(PriorGraph).lines[2], saveGraph(PriorGraph).lines[1]>>

\* a line that parses to an object whose type is neither entity nor relation
Foreign == JSON_stringify([type |-> "note", text |-> "x"])

\* the lines of PriorGraph with such a line between them
WithForeign == <<saveGraph(PriorGraph).lines[1], Foreign, saveGraph(PriorGraph).lines[2]>>

FoundFiles ==
  {NoFile,
   [exists |-> TRUE, lines |-> Reordered],
   [exists |-> TRUE, lines |-> WithForeign],
   [exists |-> TRUE, lines |-> <<BlankLine>>],
   [exists |-> TRUE, lines |-> BlankLined],
   [exists |-> TRUE, lines |-> <<Unparsable>>],
   [exists |-> TRUE, lines |-> saveGraph(PriorGraph).lines \o <<Unparsable>>],
   [exists |-> TRUE, lines |-> <<Unparsable>> \o saveGraph(PriorGraph).lines]}

InitFound ==
  /\ file \in FoundFiles
  /\ last = NoCall
  /\ inflight = [c \in Callers |-> NotCalled]
  /\ saved = <<>>
  /\ client = NoViewer
  /\ polls = <<>>
  /\ servers = <<>>
  /\ currentServer = null

SpecFound == InitFound /\ [][Next]_vars

\* ------------------------------------------------------------------------
\* The visualization: the /api/graph endpoint of the server and the script
\* of the page, which polls the endpoint and merges what it receives
\* ------------------------------------------------------------------------
\* requests the page issues in one run
MaxPolls == 2

\* what fetch gives the page when the request itself fails, and a 200 whose
\* body was cut off on the way
NetworkError == [status |-> 0, body |-> NoBody]
CutOff == [status |-> 200, body |-> [kind |-> "malformed", bytes |-> 71]]
Breakages == {NetworkError, CutOff}

\* response.ok
responseOk(response) == response.status >= 200 /\ response.status <= 299

\* response.json(): the parsed body, or a rejection
responseJson(response) ==
  IF response.body.kind = "object"
  THEN [ok |-> TRUE, data |-> response.body.item]
  ELSE [ok |-> FALSE, data |-> projection(EmptyGraph)]

\* ---- layout positions
\* where forceSimulation(nodes) puts the i-th node of the page (phyllotaxis
\* around the origin, rounded), at rest
initialPosition(i) ==
  CASE i = 1 -> [x |-> 7, y |-> 0, vx |-> 0, vy |-> 0]
    [] i = 2 -> [x |-> -9, y |-> 8, vx |-> 0, vy |-> 0]
    [] OTHER -> [x |-> 1, y |-> -16, vx |-> 0, vy |-> 0]

\* the viewport, and the placements width/2 + (Math.random() - 0.5) * 100
\* can give a node that appears in a merge
width == 800
height == 600
RandomSpots ==
  {[x |-> (width \div 2) + d, y |-> (height \div 2) - d, vx |-> 0, vy |-> 0] :
     d \in {-20, 20}}

\* where the simulation has carried a node, still moving
Moved == [x |-> 100, y |-> 200, vx |-> 1, vy |-> -1]

\* ---- the script's objects
\* a reference to a node object: the snapshot that made it (0 is the page)
\* and its index there; the id is carried along because it never changes
NoNode == [ref |-> <<>>, id |-> ""]
pointer(n) == [ref |-> n.ref, id |-> n.id]

\* new Map(nodes.map(n => [n.id, n])).get(id): the index of the last node
\* with that id, 0 when there is none
nodeById(nodes, id) ==
  LET at == {i \in 1..Len(nodes) : nodes[i].id = id}
  IN IF at = {} THEN 0 ELSE CHOOSE i \in at : \A j \in at : j <= i

\* nodes.find(n => n.id === id): the index of the first node with that id
findNode(nodes, id) ==
  LET at == {i \in 1..Len(nodes) : nodes[i].id = id}
  IN IF at = {} THEN 0 ELSE CHOOSE i \in at : \A j \in at : i <= j

\* Faulty variant: a link is kept when its source resolves
RECURSIVE resolveLinks_sourceOnly(_, _)
resolveLinks_sourceOnly(nodes, links) ==
  IF links = <<>> THEN <<>>
  ELSE LET l == Head(links)
           sourceNode == nodeById(nodes, l.source)
           targetNode == nodeById(nodes, l.target)
           rest == resolveLinks_sourceOnly(nodes, Tail(links))
       IN IF sourceNode # 0
          THEN <<[source |-> pointer(nodes[sourceNode]),
                  target |-> IF targetNode # 0 THEN pointer(nodes[targetNode])
                             ELSE [ref |-> <<>>, id |-> l.target],
                  type |-> l.type]>> \o rest
          ELSE rest

\* resolveLinks, and the same loop in updateGraph: a link is kept when both
\* of its names resolve, and then holds the node objects
RECURSIVE resolveLinks(_, _)
resolveLinks(nodes, links) ==
  IF links = <<>> THEN <<>>
  ELSE LET l == Head(links)
           sourceNode == nodeById(nodes, l.source)
           targetNode == nodeById(nodes, l.target)
           rest == resolveLinks(nodes, Tail(links))
       IN IF sourceNode # 0 /\ targetNode # 0
          THEN <<[source |-> pointer(nodes[sourceNode]),
                  target |-> pointer(nodes[targetNode]),
                  type |-> l.type]>> \o rest
          ELSE rest

\* src + '|' + l.type + '|' + tgt, as the characters of the string
linkKey(src, type, tgt) ==
  Chars(src) \o <<"|">> \o Chars(type) \o <<"|">> \o Chars(tgt)

NoPanel == [active |-> FALSE, name |-> "", type |-> "", observations |-> <<>>]

\* selectNode(d): d is selected and the panel shows it
selectNodeOn(c, d) ==
  [c EXCEPT !.selectedNode = pointer(d),
            !.panel = [active |-> TRUE, name |-> d.id, type |-> d.type,
                       observations |-> d.observations]]

\* deselectNode(): nothing is selected and the panel is hidden
deselectNodeOn(c) == [c EXCEPT !.selectedNode = NoNode, !.panel = NoPanel]

\* ---- updateGraph
existingLinksSet(c) ==
  {linkKey(c.links[i].source.id, c.links[i].type, c.links[i].target.id) :
     i \in 1..Len(c.links)}

\* the change signal
hasChanges(c, newNodes, newLinks) ==
  \/ Len(c.nodes) # Len(newNodes)
  \/ Len(c.links) # Len(newLinks)
  \/ \E i \in 1..Len(newNodes) :
       LET existing == nodeById(c.nodes, newNodes[i].id)
       IN \/ existing = 0
          \/ c.nodes[existing].type # newNodes[i].type
          \/ JSON_stringify(c.nodes[existing].observations)
               # JSON_stringify(newNodes[i].observations)
  \/ \E i \in 1..Len(newLinks) :
       linkKey(newLinks[i].source, newLinks[i].type, newLinks[i].target)
         \notin existingLinksSet(c)

\* Faulty variant: every node of the snapshot is placed afresh
mergedNodes_placedAfresh(c, serial, newNodes, place) ==
  [i \in 1..Len(newNodes) |->
     [ref |-> <<serial, i>>, id |-> newNodes[i].id, type |-> newNodes[i].type,
      observations |-> newNodes[i].observations, pos |-> place[i]]]

\* the node objects of a snapshot as the merge leaves them: positions.get(id)
\* is the position of the last existing node with that id
mergedNodes(c, serial, newNodes, place) ==
  [i \in 1..Len(newNodes) |->
     LET n == newNodes[i]
         pos == nodeById(c.nodes, n.id)
     IN [ref |-> <<serial, i>>, id |-> n.id, type |-> n.type,
         observations |-> n.observations,
         pos |-> IF pos # 0 THEN c.nodes[pos].pos ELSE place[i]]]

\* Faulty variant: the selection is left as it was
reselect_untouched(c, before) == c

\* the end of updateGraph: the selection follows the id
reselect(c, before) ==
  LET stillExists == findNode(c.nodes, before.id)
  IN IF before = NoNode THEN c
     ELSE IF stillExists # 0 THEN selectNodeOn(c, c.nodes[stillExists])
     ELSE deselectNodeOn(c)

updateGraph(c, serial, data, place) ==
  IF ~hasChanges(c, data.nodes, data.links) THEN c
  ELSE LET merged == mergedNodes(c, serial, data.nodes, place)
       IN reselect([c EXCEPT !.nodes = merged,
                             !.links = resolveLinks(merged, data.links),
                             !.applied = data],
                   c.selectedNode)

\* ---- pollForUpdates
\* its first statement: a tick does nothing while live updates are paused
fetches(c) == c.liveUpdateEnabled

\* Faulty variant: a failed poll clears what is shown
received_clearsOnFailure(c, serial, response, place) ==
  IF responseOk(response) /\ responseJson(response).ok
  THEN updateGraph(c, serial, responseJson(response).data, place)
  ELSE deselectNodeOn([c EXCEPT !.nodes = <<>>, !.links = <<>>])

\* after the await: the response is merged, or the failure is swallowed
received(c, serial, response, place) ==
  IF responseOk(response) /\ responseJson(response).ok
  THEN updateGraph(c, serial, responseJson(response).data, place)
  ELSE c

\* ---- toggleLiveUpdate
\* setInterval's handle: one that no running timer has
newTimer(c) == CHOOSE t \in 1..(Cardinality(c.timers) + 1) : t \notin c.timers

\* Faulty variant: resuming starts no interval timer
toggleLiveUpdateOn_noRestart(c) ==
  IF ~c.liveUpdateEnabled
  THEN [c EXCEPT !.liveUpdateEnabled = TRUE]
  ELSE [c EXCEPT !.liveUpdateEnabled = FALSE,
                 !.timers = @ \ {c.pollInterval}]

\* Faulty variant: pausing leaves the interval timer running
toggleLiveUpdateOn_keepsTimer(c) ==
  IF ~c.liveUpdateEnabled
  THEN [c EXCEPT !.liveUpdateEnabled = TRUE,
                 !.pollInterval = newTimer(c),
                 !.timers = @ \cup {newTimer(c)}]
  ELSE [c EXCEPT !.liveUpdateEnabled = FALSE]

toggleLiveUpdateOn(c) ==
  IF ~c.liveUpdateEnabled
  THEN [c EXCEPT !.liveUpdateEnabled = TRUE,
                 !.pollInterval = newTimer(c),
                 !.timers = @ \cup {newTimer(c)}]
  ELSE [c EXCEPT !.liveUpdateEnabled = FALSE,
                 !.timers = @ \ {c.pollInterval}]

\* ---- the page as the browser has loaded it
openPage(graph) ==
  LET loadedNodes ==
        [i \in 1..Len(graph.entities) |->
           [ref |-> <<0, i>>, id |-> nodesOf(graph)[i].id,
            type |-> nodesOf(graph)[i].type,
            observations |-> nodesOf(graph)[i].observations,
            pos |-> initialPosition(i)]]
  IN [page |-> "open",
      nodes |-> loadedNodes,
      links |-> resolveLinks(loadedNodes, linksOf(graph)),
      selectedNode |-> NoNode,
      panel |-> NoPanel,
      liveUpdateEnabled |-> TRUE,
      pollInterval |-> 1,
      timers |-> {1},
      issued |-> 0,
      lastPoll |-> "none",
      applied |-> projection(graph)]

\* ------------------------------------------------------------------------
\* The page at work next to other callers of the store
\* ------------------------------------------------------------------------
\* nodes a snapshot of this specification can hold
MaxNodes == 2

\* relations the store holds at most while the page is open
MaxLinks == 1

Pipe == "A|k"

SyncEntities == {[name |-> "A", entityType |-> "person", observations |-> <<>>]}

SyncRelations ==
  {[from |-> Pipe, to |-> "A", relationType |-> "k"],
   [from |-> "A", to |-> "A", relationType |-> "k|k"]}

\* the calls other clients of the store make while the page is open
SyncCalls ==
  {<<"createEntities", <<e>>>> : e \in SyncEntities}
  \cup {<<"createRelations", <<r>>>> : r \in SyncRelations}
  \cup {<<"deleteRelations", <<r>>>> : r \in SyncRelations}
  \cup {<<"deleteEntities", <<"A">>>>,
        <<"addObservations", <<[entityName |-> "A", contents |-> <<"x">>]>>>>}

\* one of those calls, from its load to its save
otherCaller(op, args) ==
  /\ loadGraph(file).ok
  /\ LET r == handle(op, loadGraph(file).graph, args)
     IN /\ ~r.threw
        /\ Len(r.graph.relations) <= MaxLinks
        /\ file' = saveGraph(r.graph)
  /\ UNCHANGED <<hostVars, last, inflight, saved, client, polls>>

\* overlapping saves leave a line that does not parse
storageDamaged ==
  /\ file.exists
  /\ loadGraph(file).ok
  /\ file' = [file EXCEPT !.lines = @ \o <<Unparsable>>]
  /\ UNCHANGED <<hostVars, last, inflight, saved, client, polls>>

NoResponse == [status |-> -1, body |-> NoBody]

\* a timer fires and pollForUpdates runs up to its await
tick(t) ==
  /\ t \in client.timers
  /\ fetches(client)
  /\ client.issued < MaxPolls
  /\ polls' = Append(polls, [serial |-> client.issued + 1, stage |-> "sent",
                             response |-> NoResponse])
  /\ client' = [client EXCEPT !.issued = @ + 1]
  /\ UNCHANGED <<hostVars, file, last, inflight, saved>>

\* the server handles a request
serve(k) ==
  /\ polls[k].stage = "sent"
  /\ polls' = [polls EXCEPT ![k] = [@ EXCEPT !.stage = "answered",
                                             !.response = apiGraph(file)]]
  /\ UNCHANGED <<hostVars, file, last, inflight, saved, client>>

\* a request fails on the way, or its answer is cut off
breaks(k, how) ==
  /\ polls[k].stage = "sent"
  /\ polls' = [polls EXCEPT ![k] = [@ EXCEPT !.stage = "answered", !.response = how]]
  /\ UNCHANGED <<hostVars, file, last, inflight, saved, client>>

Without(s, k) == SubSeq(s, 1, k - 1) \o SubSeq(s, k + 1, Len(s))

outcomeOf(c, response) ==
  IF ~(responseOk(response) /\ responseJson(response).ok) THEN "failed"
  ELSE IF hasChanges(c, responseJson(response).data.nodes,
                     responseJson(response).data.links) THEN "applied"
  ELSE "discarded"

\* the placements Math.random gives the nodes of one snapshot
Placements == [1..MaxNodes -> RandomSpots]

\* the await of a request resolves and pollForUpdates runs to its end
settle(k, place) ==
  /\ polls[k].stage = "answered"
  /\ client' = [received(client, polls[k].serial, polls[k].response, place)
                  EXCEPT !.lastPoll = outcomeOf(client, polls[k].response)]
  /\ polls' = Without(polls, k)
  /\ UNCHANGED <<hostVars, file, last, inflight, saved>>

toggleLiveUpdate ==
  /\ client' = toggleLiveUpdateOn(client)
  /\ UNCHANGED <<hostVars, file, last, inflight, saved, polls>>

\* a click on the i-th node
selectNode(i) ==
  /\ client' = selectNodeOn(client, client.nodes[i])
  /\ UNCHANGED <<hostVars, file, last, inflight, saved, polls>>

\* a click on the background, or Escape
deselectNode ==
  /\ client' = deselectNodeOn(client)
  /\ UNCHANGED <<hostVars, file, last, inflight, saved, polls>>

\* the simulation, or a drag, carries a node along
simulationTick(i) ==
  /\ client' = [client EXCEPT !.nodes[i].pos = Moved]
  /\ UNCHANGED <<hostVars, file, last, inflight, saved, polls>>

\* the store when the page is opened: one entity, and maybe a relation to an
\* entity that is not stored
SyncPrior ==
  [entities |-> <<[name |-> Pipe, entityType |-> "person", observations |-> <<>>]>>,
   relations |-> <<>>]

SyncFiles ==
  {saveGraph(SyncPrior),
   saveGraph([SyncPrior EXCEPT !.relations =
                <<[from |-> Pipe, to |-> "A", relationType |-> "k"]>>])}

InitSync ==
  /\ file \in SyncFiles
  /\ last = NoCall
  /\ inflight = [c \in Callers |-> NotCalled]
  /\ saved = <<>>
  /\ client = openPage(loadGraph(file).graph)
  /\ polls = <<>>
  /\ servers = <<>>
  /\ currentServer = null

NextSync ==
  \/ \E call \in SyncCalls : otherCaller(call[1], call[2])
  \/ storageDamaged
  \/ \E t \in client.timers : tick(t)
  \/ \E k \in 1..Len(polls) : serve(k)
  \/ \E k \in 1..Len(polls) : \E how \in Breakages : breaks(k, how)
  \/ \E k \in 1..Len(polls) : \E place \in Placements : settle(k, place)
  \/ toggleLiveUpdate
  \/ \E i \in 1..Len(client.nodes) : selectNode(i)
  \/ deselectNode
  \/ \E i \in 1..Len(client.nodes) : simulationTick(i)

SpecSync == InitSync /\ [][NextSync]_vars

\* ------------------------------------------------------------------------
\* The page polling on for ever: the store has stopped changing, live updates
\* stay enabled and every request is answered by the server. The interval
\* timer keeps firing, the server answers every request it receives and every
\* await resolves, so each of the three steps is taken when it stays possible.
\* ------------------------------------------------------------------------
\* what the store held when the page was opened, and what it holds since the
\* last call of another caller
LiveGraphs ==
  LET pipe == [name |-> Pipe, entityType |-> "person", observations |-> <<>>]
      a == [name |-> "A", entityType |-> "person", observations |-> <<>>]
      r1 == [from |-> Pipe, to |-> "A", relationType |-> "k"]
      r2 == [from |-> "A", to |-> "A", relationType |-> "k|k"]
  IN {[entities |-> <<pipe>>, relations |-> <<>>],
      [entities |-> <<pipe>>, relations |-> <<r1>>],
      [entities |-> <<pipe, a>>, relations |-> <<>>],
      [entities |-> <<pipe, a>>, relations |-> <<r1>>],
      [entities |-> <<pipe, a>>, relations |-> <<r2>>]}

\* serials name requests and the node objects of their snapshots; one is
\* used again once no request and no node object carries it
freeSerial ==
  CHOOSE s \in 1..(MaxPolls + 1) :
    /\ s \notin {polls[k].serial : k \in 1..Len(polls)}
    /\ s \notin {client.nodes[i].ref[1] : i \in 1..Len(client.nodes)}
    /\ \A u \in 1..(s - 1) :
         \/ u \in {polls[k].serial : k \in 1..Len(polls)}
         \/ u \in {client.nodes[i].ref[1] : i \in 1..Len(client.nodes)}

\* a timer fires and pollForUpdates runs up to its await; the requests are
\* not counted here, and at most MaxPolls of them are unresolved
tickAgain(t) ==
  /\ t \in client.timers
  /\ fetches(client)
  /\ Len(polls) < MaxPolls
  /\ polls' = Append(polls, [serial |-> freeSerial, stage |-> "sent",
                             response |-> NoResponse])
  /\ UNCHANGED <<hostVars, file, last, inflight, saved, client>>

InitLive ==
  /\ \E shown, stored \in LiveGraphs :
       /\ client = openPage(shown)
       /\ file = saveGraph(stored)
  /\ last = NoCall
  /\ inflight = [c \in Callers |-> NotCalled]
  /\ saved = <<>>
  /\ polls = <<>>
  /\ servers = <<>>
  /\ currentServer = null

NextLive ==
  \/ \E t \in client.timers : tickAgain(t)
  \/ \E k \in 1..Len(polls) : serve(k)
  \/ \E k \in 1..Len(polls) : \E place \in Placements : settle(k, place)

SpecLive ==
  /\ InitLive /\ [][NextLive]_vars
  /\ WF_vars(\E t \in client.timers : tickAgain(t))
  /\ \A k \in 1..MaxPolls :
       /\ WF_vars(k \in 1..Len(polls) /\ serve(k))
       /\ WF_vars(k \in 1..Len(polls) /\ \E place \in Placements : settle(k, place))

\* ------------------------------------------------------------------------
\* startVisualizationServer: every call of the visualize tool creates an http
\* server and asks it to listen; the answer (the listen callback or the error
\* event) comes later, and other calls can start in between
\* ------------------------------------------------------------------------
\* servers created in one run
MaxServers == 5

\* the port visualizeGraph passes
FirstPort == 3000

\* currentServer.close() and currentServer = null, when it is set
closeCurrent(all, current) ==
  IF current # null THEN [all EXCEPT ![current].state = "closed"] ELSE all

\* the body of startVisualizationServer up to server.listen(port)
begin(all, current, port) ==
  Append(closeCurrent(all, current), [port |-> port, state |-> "binding"])

\* a call of startVisualizationServer by the visualize tool
startVisualizationServer ==
  /\ Len(servers) < MaxServers
  /\ servers' = begin(servers, currentServer, FirstPort)
  /\ currentServer' = null
  /\ UNCHANGED <<file, last, inflight, saved, client, polls>>

\* the listen callback of server s: the port was free
listening(s) ==
  /\ servers[s].state = "binding"
  /\ \A o \in 1..Len(servers) :
       servers[o].state = "listening" => servers[o].port # servers[s].port
  /\ servers' = [servers EXCEPT ![s].state = "listening"]
  /\ currentServer' = s
  /\ UNCHANGED <<file, last, inflight, saved, client, polls>>

\* the error event of server s with EADDRINUSE, the port being held by one of
\* these servers or by another process: the call starts over on the next port
addressInUse(s) ==
  /\ servers[s].state = "binding"
  /\ Len(servers) < MaxServers
  /\ servers' = begin([servers EXCEPT ![s].state = "failed"], currentServer,
                      servers[s].port + 1)
  /\ currentServer' = null
  /\ UNCHANGED <<file, last, inflight, saved, client, polls>>

InitServers ==
  /\ file = NoFile
  /\ last = NoCall
  /\ inflight = [c \in Callers |-> NotCalled]
  /\ saved = <<>>
  /\ client = NoViewer
  /\ polls = <<>>
  /\ servers = <<>>
  /\ currentServer = null

NextServers ==
  \/ startVisualizationServer
  \/ \E s \in 1..Len(servers) : listening(s)
  \/ \E s \in 1..Len(servers) : addressInUse(s)

SpecServers == InitServers /\ [][NextServers]_vars

\* ------------------------------------------------------------------------
\* Vocabulary of the properties
\* ------------------------------------------------------------------------
\* the graph a fresh load returns now, and the one the last call started from
Stored == loadGraph(file).graph
Before == loadGraph(last.before).graph

Range(s) == {s[i] : i \in 1..Len(s)}

\* a loaded item without its type tag, as callers write entities and relations
AsEntity(item) ==
  [name |-> item.name, entityType |-> item.entityType, observations |-> item.observations]

AsRelation(item) ==
  [from |-> item.from, to |-> item.to, relationType |-> item.relationType]

EntitiesOf(graph) == MapSeq(graph.entities, AsEntity)
RelationsOf(graph) == MapSeq(graph.relations, AsRelation)
NamesOf(graph) == {graph.entities[i].name : i \in 1..Len(graph.entities)}

NoRepeats(s) == \A i, j \in 1..Len(s) : i # j => s[i] # s[j]

Succeeded(op) == last.op = op /\ last.outcome = "ok"

\* ------------------------------------------------------------------------
\* C1: in every state reached by calls from empty storage, no two stored
\* entities have the same name.
\* ------------------------------------------------------------------------
C1_UniqueNames ==
  \A i, j \in 1..Len(Stored.entities) :
    i # j => Stored.entities[i].name # Stored.entities[j].name

\* ------------------------------------------------------------------------
\* C2: in every state reached by calls from empty storage, no two stored
\* relations have the same (from, to, relationType).
\* ------------------------------------------------------------------------
C2_UniqueTriples ==
  \A i, j \in 1..Len(Stored.relations) :
    i # j => ~sameRelation(Stored.relations[i], Stored.relations[j])

\* ------------------------------------------------------------------------
\* C3: in every state reached by calls from empty storage, no stored entity
\* lists the same observation twice.
\* ------------------------------------------------------------------------
C3_UniqueObservations ==
  \A i \in 1..Len(Stored.entities) : NoRepeats(Stored.entities[i].observations)

\* ------------------------------------------------------------------------
\* C4: a successful addObservations answers one result per entry, appends to
\* the end of each entity only the contents it did not hold yet, each new
\* string exactly once, keeps the observations it had in their order, and
\* returns per entry exactly what it added.
\* ------------------------------------------------------------------------
\* what the entries from the k-th on report as added to the i-th stored entity
RECURSIVE AddedTo(_, _)
AddedTo(i, k) ==
  IF k > Len(last.args) THEN <<>>
  ELSE (IF find(Before.entities, last.args[k].entityName) = i
        THEN last.ret[k].addedObservations ELSE <<>>) \o AddedTo(i, k + 1)

AskedFor(i) ==
  UNION {Range(last.args[k].contents) :
           k \in {n \in 1..Len(last.args) :
                    find(Before.entities, last.args[n].entityName) = i}}

C4_AddsEachNewStringOnce ==
  Succeeded("addObservations") =>
    /\ Len(last.ret) = Len(last.args)
    /\ \A k \in 1..Len(last.args) :
         /\ last.ret[k].entityName = last.args[k].entityName
         /\ NoRepeats(last.ret[k].addedObservations)
    /\ Len(Stored.entities) = Len(Before.entities)
    /\ \A i \in 1..Len(Before.entities) :
         /\ Stored.entities[i].observations =
              Before.entities[i].observations \o AddedTo(i, 1)
         /\ NoRepeats(AddedTo(i, 1))
         /\ Range(AddedTo(i, 1)) =
              AskedFor(i) \ Range(Before.entities[i].observations)

\* ------------------------------------------------------------------------
\* C5: an addObservations call with an entry naming an entity that is not
\* stored fails with not-found and leaves storage exactly as it was,
\* wherever the bad entry stands in the batch.
\* ------------------------------------------------------------------------
C5_NotFoundCommitsNothing ==
  (/\ last.op = "addObservations"
   /\ \E k \in 1..Len(last.args) : last.args[k].entityName \notin NamesOf(Before))
  => /\ last.outcome = "NotFound"
     /\ file = last.before

\* a valid entry with something new to add, followed by a bad entry
C5_Witness ==
  /\ last.op = "addObservations"
  /\ last.outcome = "NotFound"
  /\ Len(last.args) = 2
  /\ last.args[1].entityName \in NamesOf(Before)
  /\ ~(Range(last.args[1].contents) \subseteq
         Range(Before.entities[find(Before.entities, last.args[1].entityName)].observations))
  /\ last.args[2].entityName \notin NamesOf(Before)
  /\ file = last.before

\* ------------------------------------------------------------------------
\* C6: after deleteEntities(names) no stored entity is called by one of the
\* names and no stored relation starts or ends at one of them, and every
\* other entity and relation is stored as it was.
\* ------------------------------------------------------------------------
C6_CascadingDelete ==
  Succeeded("deleteEntities") =>
    LET names == Range(last.args)
    IN /\ NamesOf(Stored) \cap names = {}
       /\ \A r \in Range(Stored.relations) : r.from \notin names /\ r.to \notin names
       /\ Range(Stored.entities) =
            {e \in Range(Before.entities) : e.name \notin names}
       /\ Range(Stored.relations) =
            {r \in Range(Before.relations) : r.from \notin names /\ r.to \notin names}

\* deleting "A" from A, B, A -> B, B -> C removes A and A -> B and keeps B and B -> C
C6_Witness ==
  /\ Succeeded("deleteEntities")
  /\ last.args = <<"A">>
  /\ NamesOf(Before) = {"A", "B"}
  /\ Range(RelationsOf(Before)) =
       {[from |-> "A", to |-> "B", relationType |-> "knows"],
        [from |-> "B", to |-> "C", relationType |-> "knows"]}
  /\ NamesOf(Stored) = {"B"}
  /\ RelationsOf(Stored) = <<[from |-> "B", to |-> "C", relationType |-> "knows"]>>

\* ------------------------------------------------------------------------
\* C7: createEntities returns exactly the inputs whose name was not stored
\* before the call, stores exactly those after the entities it found, and
\* leaves every stored entity and every stored relation as it was.
\* ------------------------------------------------------------------------
C7_CreatesOnlyNewNames ==
  Succeeded("createEntities") =>
    /\ last.ret = SelectSeq(last.args, LAMBDA e : e.name \notin NamesOf(Before))
    /\ EntitiesOf(Stored) = EntitiesOf(Before) \o last.ret
    /\ Stored.relations = Before.relations

\* an input that differs from the stored entity of its name, and a new one
C7_Witness ==
  /\ Succeeded("createEntities")
  /\ Len(last.args) = 2
  /\ last.args[1].name \in NamesOf(Before)
  /\ last.args[1] \notin Range(EntitiesOf(Before))
  /\ last.args[2].name \notin NamesOf(Before)
  /\ last.ret = <<last.args[2]>>
  /\ Before.relations # <<>>

\* ------------------------------------------------------------------------
\* C8: createEntities called twice in a row with the same non-empty list of
\* entities that were not stored: the first call returns a non-empty list,
\* the second an empty one, and the second leaves storage as the first
\* left it.
\* ------------------------------------------------------------------------
FirstOfTwo(op) == last.op = op /\ last.first.called

C8_SecondCreateIsEmpty ==
  (/\ FirstOfTwo("createEntities")
   /\ last.args # <<>>
   /\ \A k \in 1..Len(last.args) :
        last.args[k].name \notin NamesOf(loadGraph(last.first.before).graph))
  => /\ last.first.ret # <<>>
     /\ last.ret = <<>>
     /\ file = last.before

C8_Witness ==
  /\ FirstOfTwo("createEntities")
  /\ Len(last.args) = 2
  /\ last.first.ret = last.args
  /\ last.ret = <<>>
  /\ EntitiesOf(Stored) = last.args

\* ------------------------------------------------------------------------
\* C9: createRelations returns exactly the inputs whose full triple was not
\* stored and every input triple is stored afterwards, whatever other
\* relation joins the same two names; a call whose triples are all stored
\* returns nothing and leaves the stored graph as it was.
\* ------------------------------------------------------------------------
C9_DedupByFullTriple ==
  Succeeded("createRelations") =>
    /\ last.ret = SelectSeq(last.args, LAMBDA r : r \notin Range(RelationsOf(Before)))
    /\ Range(last.args) \subseteq Range(RelationsOf(Stored))
    /\ (Range(last.args) \subseteq Range(RelationsOf(Before))
          => last.ret = <<>> /\ Stored = Before)

\* (A,B,likes) created next to (A,B,knows), then submitted again
C9_Witness ==
  /\ FirstOfTwo("createRelations")
  /\ last.args = <<[from |-> "A", to |-> "B", relationType |-> "likes"]>>
  /\ [from |-> "A", to |-> "B", relationType |-> "knows"]
       \in Range(RelationsOf(loadGraph(last.first.before).graph))
  /\ last.first.ret = last.args
  /\ last.ret = <<>>
  /\ Range(RelationsOf(Stored)) =
       {[from |-> "A", to |-> "B", relationType |-> "knows"],
        [from |-> "A", to |-> "B", relationType |-> "likes"]}

\* ------------------------------------------------------------------------
\* C10: when two calls have both loaded before either started to save, and
\* both have completed, storage holds what the call that saved last made of
\* the state they both loaded, and nothing of the other call, although that
\* call returned its result without an error.
\* ------------------------------------------------------------------------
BothDone == \A c \in Callers : inflight[c].pc = "done"

LoadedBeforeAnySave == \A c \in Callers : inflight[c].savesSeen = 0

C10_LastSaveWins ==
  (BothDone /\ LoadedBeforeAnySave /\ Len(saved) = 2) =>
    LET winner == saved[2]
        loser == saved[1]
        start == loadGraph(inflight[loser].loaded).graph
    IN /\ file = saveGraph(handle(inflight[winner].op, start, inflight[winner].args).graph)
       /\ inflight[loser].outcome = "ok"
       /\ inflight[loser].ret = handle(inflight[loser].op, start, inflight[loser].args).ret

\* what holds of the race: the last save wins whenever the second writeFile
\* opened the file after the first one had written
C10_LastSaveWinsUnlessSavesOverlap ==
  (BothDone /\ LoadedBeforeAnySave /\ Len(saved) = 2
     /\ inflight[saved[2]].writesSeen = 1) =>
    LET winner == saved[2]
        loser == saved[1]
        start == loadGraph(inflight[loser].loaded).graph
    IN /\ file = saveGraph(handle(inflight[winner].op, start, inflight[winner].args).graph)
       /\ inflight[loser].outcome = "ok"
       /\ inflight[loser].ret = handle(inflight[loser].op, start, inflight[loser].args).ret

\* ------------------------------------------------------------------------
\* C13: after a mutating call has completed, loading the file afresh (as
\* readGraph of a new store instance on the same path does) succeeds and
\* returns the entities, with their types and their observations in order,
\* and the relations of the graph the call computed and saved; this
\* includes the empty graph.
\* ------------------------------------------------------------------------
MutatingOps ==
  {"createEntities", "createRelations", "addObservations",
   "deleteEntities", "deleteObservations", "deleteRelations"}

\* the graph the last call made of what it loaded
Computed == handle(last.op, Before, last.args).graph

C13_RoundTrip ==
  (last.op \in MutatingOps /\ last.outcome = "ok") =>
    /\ loadGraph(file).ok
    /\ EntitiesOf(Stored) = EntitiesOf(Computed)
    /\ RelationsOf(Stored) = RelationsOf(Computed)
    /\ (Computed = EmptyGraph => Stored = EmptyGraph)

\* a call that leaves two entities, observations in the order x, y, and a relation
C13_Witness ==
  /\ Succeeded("addObservations")
  /\ Len(Computed.entities) = 2
  /\ \E i \in 1..2 : Computed.entities[i].observations = <<"x", "y">>
  /\ Computed.relations # <<>>
  /\ EntitiesOf(Stored) = EntitiesOf(Computed)
  /\ RelationsOf(Stored) = RelationsOf(Computed)

\* ------------------------------------------------------------------------
\* C14: searchNodes(query) returns exactly the stored entities that have
\* the query, letter case aside, as a substring of their name, their
\* entityType or one of their observations, and exactly the stored
\* relations whose from and to are both names of returned entities.
\* ------------------------------------------------------------------------
SameLetter(a, b) ==
  \/ a = b
  \/ {a, b} \in {{"A", "a"}, {"B", "b"}, {"C", "c"}, {"X", "x"}}

OccursIn(query, str) ==
  LET q == Chars(query)
      t == Chars(str)
  IN \E k \in 0..(Len(t) - Len(q)) :
       \A j \in 1..Len(q) : SameLetter(t[k + j], q[j])

Matched(e, query) ==
  \/ OccursIn(query, e.name)
  \/ OccursIn(query, e.entityType)
  \/ \E o \in Range(e.observations) : OccursIn(query, o)

C14_SearchNodes ==
  Succeeded("searchNodes") =>
    LET query == last.args[1]
        result == last.ret[1]
    IN /\ result.entities = SelectSeq(Before.entities, LAMBDA e : Matched(e, query))
       /\ result.relations =
            SelectSeq(Before.relations, LAMBDA r :
              r.from \in NamesOf(result) /\ r.to \in NamesOf(result))

\* A holds an observation matching "X", B is a company, A -> B is stored:
\* the search returns A alone and no relation
C14_Witness ==
  /\ Succeeded("searchNodes")
  /\ last.args = <<"X">>
  /\ EntitiesOf(Before) =
       <<[name |-> "A", entityType |-> "person", observations |-> <<"x">>],
         [name |-> "B", entityType |-> "company", observations |-> <<>>]>>
  /\ RelationsOf(Before) = <<[from |-> "A", to |-> "B", relationType |-> "knows"]>>
  /\ EntitiesOf(last.ret[1]) =
       <<[name |-> "A", entityType |-> "person", observations |-> <<"x">>]>>
  /\ last.ret[1].relations = <<>>

\* both endpoints matched ("A" occurs in the name A and in "company"): the
\* relation between them is returned
C14_BothEndpointsMatched ==
  /\ Succeeded("searchNodes")
  /\ last.args = <<"A">>
  /\ NamesOf(last.ret[1]) = {"A", "B"}
  /\ RelationsOf(last.ret[1]) = <<[from |-> "A", to |-> "B", relationType |-> "likes"]>>

\* ------------------------------------------------------------------------
\* C15 as stated: openNodes(names) returns the stored entities whose name is
\* in the list and the stored relations whose both endpoints are in the list.
\* ------------------------------------------------------------------------
C15_RelationsByNamesAsked ==
  Succeeded("openNodes") =>
    LET names == Range(last.args)
        result == last.ret[1]
    IN /\ result.entities = SelectSeq(Before.entities, LAMBDA e : e.name \in names)
       /\ result.relations =
            SelectSeq(Before.relations, LAMBDA r : r.from \in names /\ r.to \in names)

\* ------------------------------------------------------------------------
\* C15 as amended: openNodes(names) returns the stored entities whose name is
\* in the list and the stored relations whose both endpoints are names of
\* returned entities, that is, names in the list that a stored entity has.
\* ------------------------------------------------------------------------
C15_RelationsBetweenReturned ==
  Succeeded("openNodes") =>
    LET names == Range(last.args)
        result == last.ret[1]
    IN /\ result.entities = SelectSeq(Before.entities, LAMBDA e : e.name \in names)
       /\ result.relations =
            SelectSeq(Before.relations, LAMBDA r :
              /\ r.from \in names \cap NamesOf(Before)
              /\ r.to \in names \cap NamesOf(Before))

\* B and C are asked for, B -> C is stored and no entity is called C
C15_Witness ==
  /\ Succeeded("openNodes")
  /\ last.args = <<"B", "C">>
  /\ NamesOf(Before) = {"A", "B"}
  /\ [from |-> "B", to |-> "C", relationType |-> "knows"] \in Range(RelationsOf(Before))
  /\ NamesOf(last.ret[1]) = {"B"}
  /\ last.ret[1].relations = <<>>

\* ------------------------------------------------------------------------
\* C16: createRelations never fails, and a relation whose from or to names
\* no stored entity is stored like any other and, unless its triple was
\* stored already, returned as created.
\* ------------------------------------------------------------------------
Dangling(r, graph) == r.from \notin NamesOf(graph) \/ r.to \notin NamesOf(graph)

C16_NoReferentialCheck ==
  last.op = "createRelations" =>
    /\ last.outcome = "ok"
    /\ \A k \in 1..Len(last.args) :
         Dangling(last.args[k], Before) =>
           /\ last.args[k] \in Range(RelationsOf(Stored))
           /\ (last.args[k] \notin Range(RelationsOf(Before))
                 => last.args[k] \in Range(last.ret))

\* B -> C is created where B is stored and no entity is called C, and A -> B
\* where no entity is called A
C16_Witness ==
  /\ Succeeded("createRelations")
  /\ NamesOf(Before) = {"B"}
  /\ Before.relations = <<>>
  /\ last.args = <<[from |-> "B", to |-> "C", relationType |-> "knows"],
                   [from |-> "A", to |-> "B", relationType |-> "knows"]>>
  /\ last.ret = last.args
  /\ RelationsOf(Stored) = last.args
  /\ \E r \in Range(Stored.relations) : Dangling(r, Stored)

\* ------------------------------------------------------------------------
\* C17: deleteEntities never fails; when its names match no stored entity
\* and no endpoint of a stored relation, the stored graph stays as it was;
\* and a second deleteEntities with the same names leaves the stored graph
\* as the first call left it.
\* ------------------------------------------------------------------------
C17_DeleteEntitiesIdempotent ==
  /\ last.op = "deleteEntities" => last.outcome = "ok"
  /\ (/\ Succeeded("deleteEntities")
      /\ Range(last.args) \cap NamesOf(Before) = {}
      /\ \A r \in Range(Before.relations) :
           r.from \notin Range(last.args) /\ r.to \notin Range(last.args))
     => Stored = Before
  /\ FirstOfTwo("deleteEntities") => Stored = Before

\* the first call deleted A and a relation of A, B was no entity; the second
\* call finds none of the names and leaves the rest as it was
C17_Witness ==
  /\ FirstOfTwo("deleteEntities")
  /\ last.outcome = "ok"
  /\ last.args = <<"A", "B">>
  /\ NamesOf(loadGraph(last.first.before).graph) = {"A"}
  /\ Range(RelationsOf(loadGraph(last.first.before).graph)) =
       {[from |-> "A", to |-> "B", relationType |-> "knows"],
        [from |-> "B", to |-> "C", relationType |-> "knows"]}
  /\ Before = EmptyGraph
  /\ Stored = EmptyGraph

\* a name that nothing mentions is deleted from a graph that stays as it was
C17_NothingToDelete ==
  /\ Succeeded("deleteEntities")
  /\ ~last.first.called
  /\ last.args = <<"B">>
  /\ NamesOf(Before) = {"A"}
  /\ Before.relations = <<>>
  /\ Stored = Before

\* ------------------------------------------------------------------------
\* C18: deleteObservations never fails and removes, from every stored
\* entity that an entry names, the observations equal to a string of that
\* entry's list and nothing else: what remains keeps its order, entries
\* naming no stored entity change nothing, and every other entity and every
\* relation stays as it was.
\* ------------------------------------------------------------------------
\* the strings listed for deletion from the entities called name
Listed(name) ==
  UNION {Range(last.args[k].observations) :
           k \in {n \in 1..Len(last.args) : last.args[n].entityName = name}}

C18_RemovesListedFromNamed ==
  last.op = "deleteObservations" =>
    /\ last.outcome = "ok"
    /\ Len(Stored.entities) = Len(Before.entities)
    /\ \A i \in 1..Len(Before.entities) :
         /\ Stored.entities[i].name = Before.entities[i].name
         /\ Stored.entities[i].entityType = Before.entities[i].entityType
         /\ Stored.entities[i].observations =
              SelectSeq(Before.entities[i].observations,
                        LAMBDA o : o \notin Listed(Before.entities[i].name))
    /\ Stored.relations = Before.relations

\* what holds of deleteObservations: the same, of storage without two
\* entities of one name
C18_RemovesListedWhenNamesUnique ==
  (/\ last.op = "deleteObservations"
   /\ \A i, j \in 1..Len(Before.entities) :
        i # j => Before.entities[i].name # Before.entities[j].name)
  => C18_RemovesListedFromNamed

\* ------------------------------------------------------------------------
\* C19: deleteRelations never fails, removes exactly the stored relations
\* whose (from, to, relationType) is one of the input triples, keeps every
\* relation that differs from each input in some field, and leaves the
\* entities as they were.
\* ------------------------------------------------------------------------
C19_RemovesExactTriples ==
  last.op = "deleteRelations" =>
    /\ last.outcome = "ok"
    /\ Stored.entities = Before.entities
    /\ RelationsOf(Stored) =
         SelectSeq(RelationsOf(Before), LAMBDA r : r \notin Range(last.args))

\* A -knows-> B is deleted next to A -likes-> B, which stays; the input
\* B -knows-> C matches nothing
C19_Witness ==
  /\ Succeeded("deleteRelations")
  /\ Before.entities # <<>>
  /\ Range(RelationsOf(Before)) =
       {[from |-> "A", to |-> "B", relationType |-> "knows"],
        [from |-> "A", to |-> "B", relationType |-> "likes"]}
  /\ last.args = <<[from |-> "A", to |-> "B", relationType |-> "knows"],
                   [from |-> "B", to |-> "C", relationType |-> "knows"]>>
  /\ RelationsOf(Stored) = <<[from |-> "A", to |-> "B", relationType |-> "likes"]>>

\* ------------------------------------------------------------------------
\* C20: searchObservations(entityName, query) fails with not-found when no
\* stored entity has the name; otherwise it succeeds and returns, in stored
\* order, exactly the observations of a stored entity of that name that
\* have the query, letter case aside, as a substring, so nothing that only
\* an entity of another name holds.
\* ------------------------------------------------------------------------
C20_SearchObservations ==
  last.op = "searchObservations" =>
    LET entityName == last.args[1]
        query == last.args[2]
    IN IF entityName \notin NamesOf(Before)
       THEN last.outcome = "NotFound"
       ELSE /\ last.outcome = "ok"
            /\ \E i \in 1..Len(Before.entities) :
                 /\ Before.entities[i].name = entityName
                 /\ last.ret = SelectSeq(Before.entities[i].observations,
                                         LAMBDA o : OccursIn(query, o))

\* A holds y then x, B holds nothing: "X" finds x in A, and nothing in B
C20_Witness ==
  /\ Succeeded("searchObservations")
  /\ NamesOf(Before) = {"A", "B"}
  /\ \E i \in 1..2 : /\ Before.entities[i].name = "A"
                     /\ Before.entities[i].observations = <<"y", "x">>
  /\ last.args = <<"A", "X">>
  /\ last.ret = <<"x">>

\* the entity asked for is not stored while another one is
C20_NotFound ==
  /\ last.op = "searchObservations"
  /\ last.outcome = "NotFound"
  /\ last.args[1] = "B"
  /\ NamesOf(Before) = {"A"}

\* ------------------------------------------------------------------------
\* C12: while a save has started and not finished (and so, after a save
\* that was interrupted there), loading the file gives the complete graph
\* from before that save or the complete graph it writes, and a call that
\* loaded while the other call's save was under way has loaded one of the
\* two: never an empty, cut or unparsable graph.
\* ------------------------------------------------------------------------
Other(c) == CHOOSE d \in Callers : d # c

\* what loading f gives, when the save of c is the only one so far
BeforeOrAfterSaveOf(c, f) ==
  /\ loadGraph(f).ok
  /\ loadGraph(f).graph \in
       {loadGraph(inflight[c].loaded).graph,
        loadGraph([exists |-> TRUE, lines |-> inflight[c].data]).graph}

C12_SurvivesPartialWrites ==
  \A c \in Callers :
    /\ (inflight[c].pc = "writing" /\ inflight[Other(c)].pc = "idle")
         => BeforeOrAfterSaveOf(c, file)
    /\ (/\ inflight[c].saves
        /\ inflight[c].savesSeen = 0
        /\ inflight[Other(c)].pc # "idle"
        /\ inflight[Other(c)].savesSeen = 1)
         => BeforeOrAfterSaveOf(c, inflight[Other(c)].loaded)

\* ------------------------------------------------------------------------
\* C11: a call either succeeds, and then storage holds the whole graph it
\* computed (a read leaves storage as it was), or fails, and then storage
\* is exactly as the call found it. When a line of storage does not parse,
\* every operation, mutating or read-only, fails with the parse error: no
\* line is skipped and storage stays as it was.
\* ------------------------------------------------------------------------
AllOps ==
  MutatingOps \cup {"readGraph", "searchNodes", "openNodes", "searchObservations"}

\* some line of f is neither blank nor a JSON text
HasUnparsableLine(f) == \E i \in 1..Len(f.lines) : f.lines[i].kind = "malformed"

C11_AllOrNothing ==
  last.op \in AllOps =>
    /\ HasUnparsableLine(last.before)
         => (last.outcome = "MalformedRecord" /\ last.ret = <<>>)
    /\ last.outcome # "ok" => file = last.before
    /\ (last.outcome = "ok" /\ last.op \in MutatingOps) => file = saveGraph(Computed)
    /\ (last.outcome = "ok" /\ last.op \notin MutatingOps) => file = last.before

\* a mutating call on storage whose second and third lines parse has failed
\* on the first, and nothing was written
C11_Witness ==
  /\ last.op = "createEntities"
  /\ last.args # <<>>
  /\ last.before = [exists |-> TRUE,
                    lines |-> <<Unparsable>> \o saveGraph(PriorGraph).lines]
  /\ last.outcome = "MalformedRecord"
  /\ file = last.before

\* a read has failed on the line after the ones that parse
C11_ReadFails ==
  /\ last.op = "searchNodes"
  /\ last.before = [exists |-> TRUE,
                    lines |-> saveGraph(PriorGraph).lines \o <<Unparsable>>]
  /\ last.outcome = "MalformedRecord"

\* ------------------------------------------------------------------------
\* C21 as stated: when the file does not exist no call fails on the load,
\* every read operation returns an empty result and every mutating
\* operation does what it does on the empty graph; and blank lines change
\* nothing: a call on a file with blank lines does what it does on the same
\* file without them.
\* ------------------------------------------------------------------------
WithoutBlankLines(f) ==
  [exists |-> f.exists, lines |-> SelectSeq(f.lines, LAMBDA line : line.kind # "blank")]

HasBlankLine(f) == \E i \in 1..Len(f.lines) : f.lines[i].kind = "blank"

\* a mutating call went on from graph: it saved what it makes of graph, or
\* it is an addObservations that found no entity in it and saved nothing
ProceededFrom(graph) ==
  LET r == handle(last.op, graph, last.args)
  IN IF r.threw
     THEN last.outcome = "NotFound" /\ file = last.before
     ELSE last.outcome = "ok" /\ file = saveGraph(r.graph) /\ last.ret = r.ret

BlankLinesIgnored ==
  (HasBlankLine(last.before) /\ ~HasUnparsableLine(last.before)) =>
    /\ last.outcome # "MalformedRecord"
    /\ Before = loadGraph(WithoutBlankLines(last.before)).graph
    /\ last.op \in MutatingOps => ProceededFrom(loadGraph(WithoutBlankLines(last.before)).graph)
    /\ last.op = "readGraph" => last.ret = <<loadGraph(WithoutBlankLines(last.before)).graph>>

C21_EveryReadIsEmpty ==
  last.op \in AllOps =>
    /\ ~last.before.exists =>
         /\ last.op \in MutatingOps => ProceededFrom(EmptyGraph)
         /\ last.op \in {"readGraph", "searchNodes", "openNodes"}
              => (last.outcome = "ok" /\ last.ret = <<EmptyGraph>>)
         /\ last.op = "searchObservations" => (last.outcome = "ok" /\ last.ret = <<>>)
    /\ BlankLinesIgnored

\* ------------------------------------------------------------------------
\* C21 as amended: when the file does not exist no call fails on the load:
\* readGraph, searchNodes and openNodes return the empty graph,
\* searchObservations fails with not-found because the empty graph has no
\* entity, and every mutating operation does what it does on the empty
\* graph; blank lines change nothing.
\* ------------------------------------------------------------------------
C21_MissingFileIsEmptyGraph ==
  last.op \in AllOps =>
    /\ ~last.before.exists =>
         /\ last.op \in MutatingOps => ProceededFrom(EmptyGraph)
         /\ last.op \in {"readGraph", "searchNodes", "openNodes"}
              => (last.outcome = "ok" /\ last.ret = <<EmptyGraph>>)
         /\ last.op = "searchObservations" => last.outcome = "NotFound"
         /\ last.op \notin MutatingOps => ~file.exists
    /\ BlankLinesIgnored

\* the first call ever, a createEntities, has created the file from nothing
C21_Witness ==
  /\ Succeeded("createEntities")
  /\ ~last.before.exists
  /\ Len(last.args) = 2
  /\ last.ret = last.args
  /\ file = saveGraph([entities |-> last.args, relations |-> <<>>])

\* a search on the file with blank lines finds the entity between them
C21_BlankLinesWitness ==
  /\ Succeeded("searchNodes")
  /\ last.before = [exists |-> TRUE, lines |-> BlankLined]
  /\ last.args = <<"X">>
  /\ NamesOf(last.ret[1]) = {"A"}

\* ------------------------------------------------------------------------
\* C22: the endpoint reloads the store on every request and answers with one
\* node {id = name, type = entityType, observations} per stored entity and one
\* link {source = from, target = to, type = relationType} per stored relation;
\* when the reload fails it answers with an error response, never with a
\* snapshot.
\* ------------------------------------------------------------------------
\* the server has answered request k in this step
Served(k) ==
  /\ k \in 1..Len(polls) /\ Len(polls') = Len(polls)
  /\ polls[k].stage = "sent" /\ polls'[k].stage = "answered"
  /\ polls'[k].response \notin Breakages

IsProjectionOf(data, graph) ==
  /\ DOMAIN data = {"nodes", "links"}
  /\ Len(data.nodes) = Len(graph.entities)
  /\ Len(data.links) = Len(graph.relations)
  /\ \A i \in 1..Len(graph.entities) :
       /\ data.nodes[i].id = graph.entities[i].name
       /\ data.nodes[i].type = graph.entities[i].entityType
       /\ data.nodes[i].observations = graph.entities[i].observations
  /\ \A i \in 1..Len(graph.relations) :
       /\ data.links[i].source = graph.relations[i].from
       /\ data.links[i].target = graph.relations[i].to
       /\ data.links[i].type = graph.relations[i].relationType

IsErrorResponse(response) ==
  /\ response.status = 500
  /\ response.body.kind = "object"
  /\ DOMAIN response.body.item = {"error"}

C22_EndpointReloads ==
  [][\A k \in 1..Len(polls) : Served(k) =>
       IF loadGraph(file).ok
       THEN /\ polls'[k].response.status = 200
            /\ polls'[k].response.body.kind = "object"
            /\ IsProjectionOf(polls'[k].response.body.item, loadGraph(file).graph)
       ELSE IsErrorResponse(polls'[k].response)]_vars

\* one request answered with the error response and one with a snapshot of
\* two nodes and a link
C22_Witness ==
  \E j, k \in 1..Len(polls) :
    /\ polls[j].stage = "answered" /\ IsErrorResponse(polls[j].response)
    /\ polls[k].stage = "answered" /\ polls[k].response.status = 200
    /\ polls[k].response.body.kind = "object"
    /\ Len(polls[k].response.body.item.nodes) = 2
    /\ Len(polls[k].response.body.item.links) = 1

\* ------------------------------------------------------------------------
\* C23: whenever updateGraph applies a snapshot, every node id present both
\* before and after keeps exactly the position and velocity it had before the
\* merge, every newly appearing id gets a fresh position, and ids absent from
\* the snapshot keep no position state.
\* ------------------------------------------------------------------------
\* pollForUpdates has run to its end on the response of request k in this step
Settled(k) ==
  /\ k \in 1..Len(polls)
  /\ polls[k].stage = "answered"
  /\ polls' = Without(polls, k)

\* ... and updateGraph has applied its snapshot
Applied(k) == Settled(k) /\ client'.lastPoll = "applied"

IdsOf(nodes) == {nodes[i].id : i \in 1..Len(nodes)}

PositionsOf(nodes, id) == {nodes[i].pos : i \in {j \in 1..Len(nodes) : nodes[j].id = id}}

C23_ReconciliationPreservesPosition ==
  [][\A k \in 1..Len(polls) : Applied(k) =>
       /\ IdsOf(client'.nodes) = IdsOf(polls[k].response.body.item.nodes)
       /\ \A i \in 1..Len(client'.nodes) :
            IF client'.nodes[i].id \in IdsOf(client.nodes)
            THEN client'.nodes[i].pos \in PositionsOf(client.nodes, client'.nodes[i].id)
            ELSE client'.nodes[i].pos \in RandomSpots]_vars

\* a merge has been applied that kept a node where the simulation had carried
\* it and placed a new node
C23_Witness ==
  /\ client.lastPoll = "applied"
  /\ \E i, j \in 1..Len(client.nodes) :
       /\ client.nodes[i].ref[1] >= 1 /\ client.nodes[i].pos = Moved
       /\ client.nodes[j].ref[1] >= 1 /\ client.nodes[j].pos \in RandomSpots

\* ------------------------------------------------------------------------
\* C24: when a poll response describes the same graph as the snapshot the
\* client last applied, no change signal fires and the response is discarded:
\* nodes, links, positions and selection stay as they are and nothing is
\* rendered or restarted; also when the store holds a relation whose endpoint
\* entity does not exist.
\* ------------------------------------------------------------------------
\* the response of request k is a snapshot equal to the one last applied
SameAsApplied(k) ==
  /\ responseOk(polls[k].response)
  /\ polls[k].response.body.kind = "object"
  /\ polls[k].response.body.item = client.applied

Rendering(c) == [nodes |-> c.nodes, links |-> c.links, selectedNode |-> c.selectedNode,
                 panel |-> c.panel]

C24_SameSnapshotIsDiscarded ==
  [][\A k \in 1..Len(polls) : (Settled(k) /\ SameAsApplied(k)) =>
       /\ client'.lastPoll = "discarded"
       /\ Rendering(client') = Rendering(client)]_vars

\* every link of the snapshot names two of its nodes
AllLinksResolve(data) ==
  \A i \in 1..Len(data.links) :
    /\ data.links[i].source \in IdsOf(data.nodes)
    /\ data.links[i].target \in IdsOf(data.nodes)

\* the same, for the snapshots without a dangling link
C24_DiscardedWhenLinksResolve ==
  [][\A k \in 1..Len(polls) : (Settled(k) /\ SameAsApplied(k) /\ AllLinksResolve(client.applied)) =>
       /\ client'.lastPoll = "discarded"
       /\ Rendering(client') = Rendering(client)]_vars

\* ------------------------------------------------------------------------
\* C25: the page has at most one poll request in flight at any time: a tick
\* issues no request while the previous poll is unresolved, however long the
\* endpoint takes to answer.
\* ------------------------------------------------------------------------
C25_AtMostOneInFlight == Len(polls) <= 1

\* ------------------------------------------------------------------------
\* C26: a failed poll (the request fails, the response is not OK, or the body
\* does not parse) is swallowed: nodes, links, positions and selection stay
\* exactly as they were, and polling goes on, the timer still running.
\* ------------------------------------------------------------------------
\* the response of request k is a failure of one of the three kinds
Failure(k) ==
  \/ polls[k].response.status = 0
  \/ polls[k].response.status >= 300
  \/ polls[k].response.body.kind # "object"

C26_FailedPollIsSwallowed ==
  [][\A k \in 1..Len(polls) : (Settled(k) /\ Failure(k)) =>
       client' = [client EXCEPT !.lastPoll = "failed"]]_vars

\* a failed poll has been handled with a moved node on the page and a node
\* selected, and the timer runs
C26_Witness ==
  /\ client.lastPoll = "failed"
  /\ client.selectedNode # NoNode
  /\ \E i \in 1..Len(client.nodes) : client.nodes[i].pos = Moved
  /\ client.timers # {}
  /\ client.issued < MaxPolls

\* ------------------------------------------------------------------------
\* C27: pausing stops the scheduling of polls: while live updates are paused
\* no request is issued and no timer runs; a poll in flight at the moment of
\* pausing still completes and is applied; resuming starts one fresh interval
\* and issues no request for the ticks missed.
\* ------------------------------------------------------------------------
Toggled == client'.liveUpdateEnabled # client.liveUpdateEnabled

\* the response of request k is a snapshot
Snapshot(k) ==
  /\ polls[k].response.status = 200
  /\ polls[k].response.body.kind = "object"

C27_PauseStopsScheduling ==
  [][/\ Len(polls') > Len(polls) => client.liveUpdateEnabled
     /\ (Toggled /\ client.liveUpdateEnabled) => (client'.timers = {} /\ polls' = polls)
     /\ (Toggled /\ ~client.liveUpdateEnabled) =>
          /\ polls' = polls /\ client'.issued = client.issued
          /\ Cardinality(client'.timers) = 1
          /\ client'.pollInterval \in client'.timers
     /\ \A k \in 1..Len(polls) :
          (Settled(k) /\ Snapshot(k) /\ ~client.liveUpdateEnabled) =>
            \E place \in Placements :
              client' = [updateGraph(client, polls[k].serial,
                                     polls[k].response.body.item, place)
                           EXCEPT !.lastPoll = client'.lastPoll]]_vars

\* live updates are paused while the answer to a request issued before is on
\* its way, with a snapshot that differs from what the page shows
C27_Witness ==
  /\ ~client.liveUpdateEnabled
  /\ \E k \in 1..Len(polls) :
       /\ polls[k].stage = "answered" /\ Snapshot(k)
       /\ hasChanges(client, polls[k].response.body.item.nodes,
                     polls[k].response.body.item.links)

\* ------------------------------------------------------------------------
\* C28: the change signal is complete: whenever a snapshot differs from the
\* client's graph in its node ids, in a node's type or observations, or in its
\* (source, type, target) links that resolve against its nodes, updateGraph
\* applies it, so that after any successfully processed poll the client's
\* nodes equal the snapshot's nodes and the client's links equal the
\* snapshot's resolvable links.
\* ------------------------------------------------------------------------
ShownNodes(c) ==
  {[id |-> c.nodes[i].id, type |-> c.nodes[i].type,
    observations |-> c.nodes[i].observations] : i \in 1..Len(c.nodes)}

ShownLinks(c) ==
  {[source |-> c.links[i].source.id, type |-> c.links[i].type,
    target |-> c.links[i].target.id] : i \in 1..Len(c.links)}

ResolvableLinks(data) ==
  {data.links[i] : i \in {j \in 1..Len(data.links) :
                            /\ data.links[j].source \in IdsOf(data.nodes)
                            /\ data.links[j].target \in IdsOf(data.nodes)}}

C28_ChangeSignalIsComplete ==
  [][\A k \in 1..Len(polls) : (Settled(k) /\ Snapshot(k)) =>
       /\ ShownNodes(client') = Range(polls[k].response.body.item.nodes)
       /\ ShownLinks(client') = ResolvableLinks(polls[k].response.body.item)]_vars

\* ------------------------------------------------------------------------
\* C29: in every client state each link of the client's link list has a source
\* and a target that are nodes of the client's node list; a link of a snapshot
\* whose source or target names no node of the snapshot is dropped and the
\* rest of the snapshot is applied.
\* ------------------------------------------------------------------------
RefsOf(nodes) == {nodes[i].ref : i \in 1..Len(nodes)}

C29_LinksPointIntoNodes ==
  /\ \A i \in 1..Len(client.links) :
       /\ client.links[i].source.ref \in RefsOf(client.nodes)
       /\ client.links[i].target.ref \in RefsOf(client.nodes)
  /\ ShownNodes(client) = Range(client.applied.nodes)
  /\ ShownLinks(client) = ResolvableLinks(client.applied)

\* a snapshot with a dangling link has been applied by a merge: its nodes are
\* shown, the link is not
C29_Witness ==
  /\ client.lastPoll = "applied"
  /\ ~AllLinksResolve(client.applied)
  /\ \E i \in 1..Len(client.nodes) : client.nodes[i].ref[1] >= 1
  /\ client.links = <<>>

\* ------------------------------------------------------------------------
\* C30: after every merge the selection is consistent with the node list: if
\* the id of the selected node is still present the selection is moved to the
\* node object of the new snapshot and the panel shows its type and
\* observations, otherwise the selection is cleared; in every client state a
\* selected node is an element of the node list.
\* ------------------------------------------------------------------------
SelectionIsANode(c) ==
  IF c.selectedNode = NoNode THEN ~c.panel.active
  ELSE \E i \in 1..Len(c.nodes) :
         /\ c.nodes[i].ref = c.selectedNode.ref
         /\ c.nodes[i].id = c.selectedNode.id
         /\ c.panel = [active |-> TRUE, name |-> c.nodes[i].id, type |-> c.nodes[i].type,
                       observations |-> c.nodes[i].observations]

C30_SelectionFollowsMerge ==
  [][/\ SelectionIsANode(client')
     /\ \A k \in 1..Len(polls) : (Applied(k) /\ client.selectedNode # NoNode) =>
          IF client.selectedNode.id \in IdsOf(polls[k].response.body.item.nodes)
          THEN /\ client'.selectedNode.id = client.selectedNode.id
               /\ client'.selectedNode.ref[1] = polls[k].serial
          ELSE client'.selectedNode = NoNode]_vars

\* a merge has moved the selection to the node object of its snapshot and the
\* panel shows the observation added since
C30_Witness ==
  /\ client.lastPoll = "applied"
  /\ client.selectedNode # NoNode
  /\ client.selectedNode.ref[1] >= 1
  /\ client.panel.observations = <<"x">>

\* ------------------------------------------------------------------------
\* C31: every save rewrites storage in full as the entities block followed by
\* the relations block: after any mutating call storage holds exactly one line
\* per entity and one line per relation of the graph the call computed, every
\* entity line precedes every relation line, and the relative order of
\* previously stored entities and of previously stored relations is kept.
\* ------------------------------------------------------------------------
\* the elements of s that occur in t, in the order of s
Kept(s, t) == SelectSeq(s, LAMBDA x : x \in Range(t))

NameSeq(graph) == [i \in 1..Len(graph.entities) |-> graph.entities[i].name]

ReadOps == {"readGraph", "searchNodes", "openNodes", "searchObservations", "apiGraph"}

C32_ReadsLeaveStorage ==
  last.op \in ReadOps => (file = last.before /\ file.exists = last.before.exists)

\* the endpoint has answered with the empty graph where there is no file
C32_Witness ==
  /\ last.op = "apiGraph"
  /\ ~last.before.exists
  /\ last.ret[1].status = 200

\* a read has failed on a file with a line that does not parse, and the
\* endpoint has answered 500 there
C32_FailedRead ==
  /\ last.op \in ReadOps \ {"apiGraph"}
  /\ last.outcome = "MalformedRecord"

C32_FailedRequest == last.op = "apiGraph" /\ last.ret[1].status = 500

\* the same for the requests of a page while other callers write: serving
\* leaves storage as it is, also with two requests in flight
C32_ServingLeavesStorage ==
  [][\A k \in 1..Len(polls) : Served(k) => file' = file]_vars

\* ------------------------------------------------------------------------
\* C33: poll responses are applied in the order their requests were issued:
\* the client never applies the snapshot of an older request after it has
\* applied the snapshot of a newer one.
\* ------------------------------------------------------------------------
\* the request whose snapshot made the node objects on the page (0: the page)
AppliedSerial(c) == IF c.nodes = <<>> THEN 0 ELSE c.nodes[1].ref[1]

C33_AppliedInIssueOrder ==
  [][\A k \in 1..Len(polls) : Applied(k) => polls[k].serial > AppliedSerial(client)]_vars

\* ------------------------------------------------------------------------
\* C34: after any sequence of pause and resume toggles at most one interval
\* timer is active, and a timer is active exactly when live updates are
\* enabled: no orphan timer runs while paused and no second timer is stacked
\* on resume.
\* ------------------------------------------------------------------------
C34_OneTimerWhenLive ==
  /\ Cardinality(client.timers) <= 1
  /\ client.timers # {} <=> client.liveUpdateEnabled
  /\ client.liveUpdateEnabled => client.timers = {client.pollInterval}

\* live updates have been paused after a poll and no timer runs
C34_Witness ==
  /\ ~client.liveUpdateEnabled
  /\ client.timers = {}
  /\ client.issued >= 1

\* ------------------------------------------------------------------------
\* C35: if live updates stay enabled, the store stops changing and every poll
\* succeeds, the client's rendering eventually equals the store's projection
\* (the same node ids with the same type and observations, and the same links
\* among those whose endpoints are stored entities) and stays equal to it.
\* ------------------------------------------------------------------------
Converged ==
  /\ ShownNodes(client) = Range(nodesOf(Stored))
  /\ ShownLinks(client) = ResolvableLinks(projection(Stored))

C35_EventuallyConverges == <>[]Converged

\* the links the page shows and the resolvable links of the store differ,
\* and yet have the same keys
KeysCollide ==
  /\ ShownLinks(client) # ResolvableLinks(projection(Stored))
  /\ {linkKey(l.source, l.type, l.target) : l \in ShownLinks(client)}
       = {linkKey(l.source, l.type, l.target) : l \in ResolvableLinks(projection(Stored))}

\* the same, for the pages that do not start from such a pair
C35_ConvergesUnlessKeysCollide == ~KeysCollide => <>[]Converged

\* ------------------------------------------------------------------------
\* C36: at most one visualization server is listening at any time, also when
\* two calls overlap or a call retries on the next port, and currentServer
\* always refers to the one listening server or is null.
\* ------------------------------------------------------------------------
Listening == {s \in 1..Len(servers) : servers[s].state = "listening"}

C36_OneServerListening ==
  /\ Cardinality(Listening) <= 1
  /\ currentServer # null => Listening = {currentServer}

\* ------------------------------------------------------------------------
\* C37: a parsable line whose type is neither entity nor relation is left out
\* of the loaded graph without any error, and the next mutating call, even one
\* that changes nothing in the graph, rewrites storage without that line: the
\* record is lost for good.
\* ------------------------------------------------------------------------
IsForeign(line) == line.kind = "object" /\ line.item.type \notin {"entity", "relation"}

HasForeignLine(f) == \E i \in 1..Len(f.lines) : IsForeign(f.lines[i])

\* the entity and relation lines of f, in their order
TaggedLines(f) ==
  SelectSeq(f.lines, LAMBDA line :
    line.kind = "object" /\ line.item.type \in {"entity", "relation"})

C37_UnknownTypeIsDropped ==
  /\ (last.op \in AllOps /\ HasForeignLine(last.before) /\ ~HasUnparsableLine(last.before)) =>
       /\ last.outcome # "MalformedRecord"
       /\ last.op = "readGraph" =>
            /\ last.outcome = "ok"
            /\ Len(last.ret[1].entities) + Len(last.ret[1].relations)
                 = Len(TaggedLines(last.before))
       /\ (last.op \in MutatingOps /\ last.outcome = "ok") =>
            (~HasForeignLine(file) /\ file # last.before)
  /\ HasForeignLine(file) => file.lines = WithForeign
  /\ (last.op \in MutatingOps /\ last.outcome = "ok") => ~HasForeignLine(file)

\* a call that deletes nothing has rewritten a file that held such a line:
\* the graph is the same and the line is gone
C37_Witness ==
  /\ Succeeded("deleteEntities")
  /\ HasForeignLine(last.before)
  /\ EntitiesOf(Stored) = EntitiesOf(Before)
  /\ RelationsOf(Stored) = RelationsOf(Before)
  /\ ~HasForeignLine(file)

====
